---- MODULE Spec2Model ----
(***************************************************************************)
(* Verification model of geomesh: boundary-loop extraction of              *)
(* UnstructuredMesh (mesh.py), ring reconstruction of                      *)
(* get_multipolygon_from_axes (geom/raster.py) and the size-field grader   *)
(* HfunRaster (hfun/raster.py).                                            *)
(*                                                                         *)
(* Conventions.  Python indices are 0-based; TLA+ sequences are 1-based,   *)
(* so vertex v has its coordinates at xy[v+1] and element i is tris[i+1].  *)
(* Coordinates and sizes are integers; the catalogues below are chosen so  *)
(* that every length that is measured is an integer.                       *)
(***************************************************************************)
EXTENDS Integers, Sequences, FiniteSets, TLC

VARIABLES
    \* ---- UnstructuredMesh.compute_planar_straight_line_graph ----
    mesh,             \* [xy, tris, neighbors]: vertices, elements, mpl_tri.neighbors
    unique_edges,     \* the pool of boundary edges not yet chained
    ring,             \* the loop being chained
    ring_collection,  \* the loops closed so far
    pslg,             \* the returned PSLG, [outer_edges, inner_edges], or None
    pc,               \* position inside compute_planar_straight_line_graph
    \* ---- get_multipolygon_from_axes ----
    paths,                   \* the closed polygons of the contour paths, in order
    linear_ring_collection,  \* the rings not yet assigned to a polygon
    outer_ring,              \* the ring selected as the next outer boundary
    polygon_collection,      \* the polygons emitted so far
    multipolygon,            \* the returned MultiPolygon, or None
    selected,                \* per selection: the ring chosen and the rings it was chosen from
    rpc,                     \* position inside get_multipolygon_from_axes
    \* ---- HfunRaster ----
    hmin,             \* the configured minimum size, or None
    hmax,             \* the configured maximum size, or None
    field,            \* the size field (band 1 of the file behind _tmpfile), per cell
    bound,            \* per cell, the least unclamped candidate of the constraints applied
    last,             \* the last call: its arguments and its outcome
    prev,             \* the field before the constraint `applied' was merged
    applied,          \* a constraint merged into prev to give field, or None
    phase,            \* position in the two-constraint scenario
    \* ---- transform_features ----
    tf_linestring,    \* the line passed to transform_features
    tf_target_size,   \* the spacing passed to transform_features
    tf_result,        \* the returned samples, [distances, coords], or None
    \* ---- UnstructuredMesh: boundary groups and the gr3 text ----
    umesh,            \* [vertices, elements, values, SpatialReference]
    boundaries,       \* per category, the stored groups <<key, dict>> in insertion order
    assigned,         \* per category, <<key, lists>>: the order in which a group was assigned
    created,          \* the outcome of the last group creation
    exposed,          \* the value of the seven *_boundaries properties when last read, or None
    gr3_out,          \* the outcome of the last read of gr3: [raised, lines], or None
    \* ---- HfunRaster.add_feature, step by step ----
    call,             \* the arguments of the running call, or None
    dst,              \* band 1 of the new temporary file the windows are written to
    window,           \* the index of the window being processed
    completed,        \* <<task, result>> of the pool's tasks, in order of completion
    before,           \* the field when the call was made
    cpc,              \* position inside add_feature
    \* ---- HfunRaster.msh_t ----
    hraster,          \* the raster behind the size field: [chunk_size, is_geographic], or None
    msh_out,          \* the outcome of the last call of msh_t, or None
    \* ---- UnstructuredMesh: attributes, description, write_gr3 ----
    obj,              \* the private attributes of the mesh: [attributes, description, decription]
    file,             \* the content of the file at the path given to write_gr3, or None
    ret,              \* the last operation on the mesh: its arguments and its outcome
    \* ---- RasterGeom.multipolygon and BaseGeom.geom ----
    rgeom,            \* the RasterGeom object: [raster, _zmin, _zmax, windowed], or None
    domain,           \* the outcome of the last read of its multipolygon property, or None
    polygons,         \* the MultiPolygon that get_multipolygon returns to BaseGeom.geom
    jgeom             \* the outcome of the last read of geom: [raised, vert2, edge2], or None

\* an optional value is None or Some(v)
None == <<>>
Some(v) == <<v>>
The(o) == o[1]

pslgVars == <<mesh, unique_edges, ring, ring_collection, pslg, pc>>
ringVars == <<paths, linear_ring_collection, outer_ring, polygon_collection,
              multipolygon, selected, rpc>>

hfunVars == <<hmin, hmax, field, bound, last, prev, applied, phase>>
orderVars == <<prev, applied, phase>>

resampleVars == <<tf_linestring, tf_target_size, tf_result>>

meshVars == <<umesh, boundaries, assigned, created, exposed, gr3_out>>

callVars == <<call, dst, window, completed, before, cpc>>

mshVars == <<hraster, msh_out>>

objVars == <<obj, file, ret>>

geomVars == <<rgeom, domain, polygons, jgeom>>

vars == <<pslgVars, ringVars, hfunVars, resampleVars, meshVars, callVars, mshVars, objVars, geomVars>>

notPSLG == <<ringVars, hfunVars, resampleVars, meshVars, callVars, mshVars, objVars, geomVars>>
notRing == <<pslgVars, hfunVars, resampleVars, meshVars, callVars, mshVars, objVars, geomVars>>
notHfun == <<pslgVars, ringVars, resampleVars, meshVars, callVars, mshVars, objVars, geomVars>>
notResample == <<pslgVars, ringVars, hfunVars, meshVars, callVars, mshVars, objVars, geomVars>>
notMesh == <<pslgVars, ringVars, hfunVars, resampleVars, callVars, mshVars, objVars, geomVars>>
notCall == <<pslgVars, ringVars, resampleVars, meshVars, mshVars, objVars, geomVars>>
notMsh == <<pslgVars, ringVars, resampleVars, meshVars, callVars, objVars, geomVars>>
notObj == <<pslgVars, ringVars, hfunVars, resampleVars, callVars, mshVars, geomVars>>
notGeom == <<pslgVars, ringVars, hfunVars, resampleVars, meshVars, callVars, mshVars, objVars>>

\* ------------------------------------------------------------------------
\* helpers over sequences and integers
\* ------------------------------------------------------------------------
RemoveAt(s, k) == SubSeq(s, 1, k - 1) \o SubSeq(s, k + 1, Len(s))

Range(s) == {s[k] : k \in 1..Len(s)}

Abs(n) == IF n < 0 THEN -n ELSE n

RECURSIVE SumSeq(_)
SumSeq(s) == IF s = <<>> THEN 0 ELSE Head(s) + SumSeq(Tail(s))

MaxOf(S) == CHOOSE m \in S : \A n \in S : n <= m

\* integer square root (exact on the perfect squares the catalogues produce)
ISqrt(n) == CHOOSE r \in 0..n : r * r <= n /\ (r + 1) * (r + 1) > n

\* Euclidean distance between two points
Dist(p, q) == ISqrt((p[1] - q[1]) * (p[1] - q[1]) + (p[2] - q[2]) * (p[2] - q[2]))

\* ------------------------------------------------------------------------
\* triangulations
\* ------------------------------------------------------------------------
\* directed edge j (0-based) of a triangle: (t[j], t[(j+1) % 3])
TriEdge(t, j) == <<t[j + 1], t[((j + 1) % 3) + 1]>>

\* matplotlib.tri.Triangulation.neighbors: neighbors[i][j] is the element
\* across edge j of element i (the one holding the reversed edge), else -1
MplNeighbors(tris) ==
    [i \in 1..Len(tris) |->
        [j \in 1..3 |->
            LET e == TriEdge(tris[i], j - 1)
                K == {k \in 1..Len(tris) :
                        k # i /\ \E jj \in 0..2 : TriEdge(tris[k], jj) = <<e[2], e[1]>>}
            IN IF K = {} THEN -1 ELSE (CHOOSE k \in K : TRUE) - 1]]

\* a 3-4-5 triangle scaled by s with its right angle at (ox, oy)
TriXY(ox, oy, s) == << <<ox, oy>>, <<ox + 4 * s, oy>>, <<ox, oy + 3 * s>> >>

\* an axis-aligned square of side s with its lower-left corner at (ox, oy)
SquareXY(ox, oy, s) ==
    << <<ox, oy>>, <<ox + s, oy>>, <<ox + s, oy + s>>, <<ox, oy + s>> >>

\* the catalogue of input triangulations (all elements anticlockwise)
MeshCatalogue ==
    [ single   |-> [xy |-> TriXY(0, 0, 1), tris |-> << <<0, 1, 2>> >>],
      quad     |-> [xy |-> SquareXY(0, 0, 4),
                    tris |-> << <<0, 1, 2>>, <<0, 2, 3>> >>],
      twoparts |-> [xy |-> SquareXY(0, 0, 10) \o SquareXY(20, 0, 1),
                    tris |-> << <<0, 1, 2>>, <<0, 2, 3>>,
                                <<4, 5, 6>>, <<4, 6, 7>> >>],
      three    |-> [xy |-> TriXY(0, 0, 1) \o TriXY(10, 0, 2) \o TriXY(30, 0, 3),
                    tris |-> << <<0, 1, 2>>, <<3, 4, 5>>, <<6, 7, 8>> >>],
      annulus  |-> [xy |-> SquareXY(0, 0, 3) \o SquareXY(1, 1, 1),
                    tris |-> << <<0, 1, 5>>, <<0, 5, 4>>, <<1, 2, 6>>, <<1, 6, 5>>,
                                <<2, 3, 7>>, <<2, 7, 6>>, <<3, 0, 4>>, <<3, 4, 7>> >>],
      bowtie   |-> [xy |-> TriXY(0, 0, 1) \o << <<-4, 0>>, <<0, -3>> >>,
                    tris |-> << <<0, 1, 2>>, <<0, 3, 4>> >>],
      pinched  |-> [xy |-> TriXY(0, 0, 1) \o << <<-4, 0>>, <<0, -3>> >>
                              \o TriXY(10, 0, 1),
                    tris |-> << <<0, 1, 2>>, <<0, 3, 4>>, <<5, 6, 7>> >>] ]

MeshNames == DOMAIN MeshCatalogue

Reverse(s) == [k \in 1..Len(s) |-> s[Len(s) + 1 - k]]

\* the same triangulation with every element's vertices rotated by r and,
\* when rev, the element list reversed: element order and local vertex order
\* are free choices of the mesh engine
Reordered(tris, r, rev) ==
    LET rot == [i \in 1..Len(tris) |-> [j \in 1..3 |-> tris[i][((j - 1 + r) % 3) + 1]]]
    IN IF rev THEN Reverse(rot) ELSE rot

MakeMesh(name, r, rev) ==
    LET t == Reordered(MeshCatalogue[name].tris, r, rev)
    IN [xy |-> MeshCatalogue[name].xy, tris |-> t, neighbors |-> MplNeighbors(t)]

\* ------------------------------------------------------------------------
\* compute_planar_straight_line_graph
\* ------------------------------------------------------------------------
\* lines 145-150: the boundary edges in element order, then local edge order
RECURSIVE EdgesFrom(_, _, _)
EdgesFrom(m, i, j) ==
    IF i > Len(m.tris) THEN <<>>
    ELSE IF j > 3 THEN EdgesFrom(m, i + 1, 1)
    ELSE (IF m.neighbors[i][j] = -1 THEN <<TriEdge(m.tris[i], j - 1)>> ELSE <<>>)
         \o EdgesFrom(m, i, j + 1)

BoundaryEdgeList(m) == EdgesFrom(m, 1, 1)

\* mutant of Continuations: the start of the last edge is compared
ContinuationsFromStart(r, pool) == {k \in 1..Len(pool) : pool[k][1] = r[Len(r)][1]}

\* line 155: np.where(ring[-1][1] == unique_edges[:, 0])
Continuations(r, pool) == {k \in 1..Len(pool) : pool[k][1] = r[Len(r)][2]}

\* lines 163-169: the OGR length of the linear ring built from the start
\* vertex of every edge of the ring, in order (the ring is not closed
\* by the code, so no segment joins the last point back to the first)
RingLength(m, r) ==
    SumSeq([k \in 1..(Len(r) - 1) |->
               Dist(m.xy[r[k][1] + 1], m.xy[r[k + 1][1] + 1])])

\* lines 145-153
CollectEdges ==
    /\ pc = "start"
    /\ LET edges == BoundaryEdgeList(mesh) IN
         IF edges = <<>>
         THEN /\ pc' = "raised"           \* pop from empty list: IndexError
              /\ UNCHANGED <<unique_edges, ring>>
         ELSE /\ ring' = <<Head(edges)>>
              /\ unique_edges' = Tail(edges)
              /\ pc' = "chain"
    /\ ring_collection' = <<>>
    /\ UNCHANGED <<mesh, pslg>>
    /\ UNCHANGED notPSLG

\* lines 154-157: one iteration of the while loop, a continuation exists
ChainAppend ==
    /\ pc = "chain"
    /\ unique_edges # <<>>
    /\ Continuations(ring, unique_edges) # {}
    /\ LET k == CHOOSE i \in Continuations(ring, unique_edges) :
                    \A ii \in Continuations(ring, unique_edges) : i <= ii
       IN /\ ring' = Append(ring, unique_edges[k])
          /\ unique_edges' = RemoveAt(unique_edges, k)
    /\ UNCHANGED <<mesh, ring_collection, pslg, pc>>
    /\ UNCHANGED notPSLG

\* mutant of ChainClose: the edge that seeds the new ring stays in the pool
ChainCloseKeepsSeed ==
    /\ pc = "chain"
    /\ unique_edges # <<>>
    /\ Continuations(ring, unique_edges) = {}
    /\ ring_collection' = Append(ring_collection, ring)
    /\ ring' = <<Head(unique_edges)>>
    /\ UNCHANGED <<mesh, unique_edges, pslg, pc>>
    /\ UNCHANGED notPSLG

\* lines 154-160: one iteration of the while loop, no continuation (IndexError)
ChainClose ==
    /\ pc = "chain"
    /\ unique_edges # <<>>
    /\ Continuations(ring, unique_edges) = {}
    /\ ring_collection' = Append(ring_collection, ring)
    /\ ring' = <<Head(unique_edges)>>
    /\ unique_edges' = Tail(unique_edges)
    /\ UNCHANGED <<mesh, pslg, pc>>
    /\ UNCHANGED notPSLG

\* lines 161-177: the loop has ended; classify the collected rings
Classify ==
    /\ pc = "chain"
    /\ unique_edges = <<>>
    /\ IF ring_collection = <<>>
       THEN /\ pc' = "raised"             \* np.max of an empty list: ValueError
            /\ pslg' = None
       ELSE LET lengths == [k \in 1..Len(ring_collection) |->
                               RingLength(mesh, ring_collection[k])]
                idx == CHOOSE k \in 1..Len(lengths) :
                         /\ lengths[k] = MaxOf(Range(lengths))
                         /\ \A kk \in 1..(k - 1) : lengths[kk] # lengths[k]
            IN /\ pslg' = Some([outer_edges |-> ring_collection[idx],
                                inner_edges |-> RemoveAt(ring_collection, idx)])
               /\ pc' = "done"
    /\ UNCHANGED <<mesh, unique_edges, ring, ring_collection>>
    /\ UNCHANGED notPSLG

\* ------------------------------------------------------------------------
\* boundary topology, stated independently of the chaining code
\* ------------------------------------------------------------------------
BoundaryEdges(m) ==
    {TriEdge(m.tris[i], j - 1) : <<i, j>> \in
        {ij \in (1..Len(m.tris)) \X (1..3) : m.neighbors[ij[1]][ij[2]] = -1}}

\* no boundary edge's reverse is also a boundary edge
Consistent(m) == \A e \in BoundaryEdges(m) : <<e[2], e[1]>> \notin BoundaryEdges(m)

\* the boundary edges connected to the set S head-to-tail
RECURSIVE Component(_, _)
Component(m, S) ==
    LET T == S \cup {f \in BoundaryEdges(m) :
                        \E e \in S : e[2] = f[1] \/ f[2] = e[1]}
    IN IF T = S THEN S ELSE Component(m, T)

BoundaryLoops(m) == {Component(m, {e}) : e \in BoundaryEdges(m)}

\* the boundary is one closed cycle: one component, one edge out of each vertex
SingleCycle(m) ==
    /\ Cardinality(BoundaryLoops(m)) = 1
    /\ \A e, f \in BoundaryEdges(m) : e[1] = f[1] => e = f

\* the perimeter of a loop: the sum of the lengths of all of its edges
RECURSIVE Perimeter(_, _)
Perimeter(m, L) ==
    IF L = {} THEN 0
    ELSE LET e == CHOOSE x \in L : TRUE
         IN Dist(m.xy[e[1] + 1], m.xy[e[2] + 1]) + Perimeter(m, L \ {e})

\* the n edges met from edge e by following each edge to the one starting
\* at its end vertex
RECURSIVE CycleFrom(_, _, _)
CycleFrom(m, e, n) ==
    IF n = 0 THEN <<>>
    ELSE <<e>> \o CycleFrom(m, CHOOSE f \in BoundaryEdges(m) : f[1] = e[2], n - 1)

Finished == pc \in {"done", "raised"}

ReturnedLoops ==
    IF pslg = None THEN <<>> ELSE <<The(pslg).outer_edges>> \o The(pslg).inner_edges

\* C1: once the extraction has finished on a consistent adjacency table, every
\* boundary edge lies in exactly one returned loop (outer or inner).
C1_EveryBoundaryEdgeInExactlyOneLoop ==
    (Finished /\ Consistent(mesh)) =>
        \A e \in BoundaryEdges(mesh) :
            Cardinality({ki \in (1..Len(ReturnedLoops)) \X (1..Len(mesh.tris) * 3) :
                            /\ ki[2] <= Len(ReturnedLoops[ki[1]])
                            /\ ReturnedLoops[ki[1]][ki[2]] = e}) = 1

\* C2: when the boundary edges form a single closed cycle, the extraction
\* returns one ring, tagged outer, with no inner rings, holding every boundary
\* edge head-to-tail from the first recorded boundary edge.
C2_SingleCycleYieldsOneOuterRing ==
    (Finished /\ SingleCycle(mesh)) =>
        /\ pslg # None
        /\ The(pslg).inner_edges = <<>>
        /\ The(pslg).outer_edges = CycleFrom(mesh, BoundaryEdgeList(mesh)[1],
                                        Cardinality(BoundaryEdges(mesh)))

\* C3: whenever the mesh has a boundary loop, exactly one loop is returned as
\* outer, it is a loop of maximal perimeter, and every other loop is returned
\* as inner.
C3_MaxPerimeterLoopIsOuter ==
    (Finished /\ BoundaryLoops(mesh) # {}) =>
        /\ pslg # None
        /\ Range(The(pslg).outer_edges) \in BoundaryLoops(mesh)
        /\ \A L \in BoundaryLoops(mesh) :
              Perimeter(mesh, L) <= Perimeter(mesh, Range(The(pslg).outer_edges))
        /\ \A L \in BoundaryLoops(mesh) \ {Range(The(pslg).outer_edges)} :
              \E k \in 1..Len(The(pslg).inner_edges) : Range(The(pslg).inner_edges[k]) = L

\* each edge of the ring starts where the edge before it ends
RingIsChain(r) == \A k \in 1..(Len(r) - 1) : r[k + 1][1] = r[k][2]

\* the last edge of the ring ends where its first edge starts
RingIsClosed(r) == r[Len(r)][2] = r[1][1]

\* no vertex is the start of two edges of the ring
RingStartsOnce(r) == \A i, j \in 1..Len(r) : r[i][1] = r[j][1] => i = j

\* no vertex of the mesh is the start of two boundary edges
NoPinchedVertex(m) == \A e, f \in BoundaryEdges(m) : e[1] = f[1] => e = f

\* C29 as stated: under a consistent adjacency table every ring the chaining
\* step produces is a closed head-to-tail chain in which no vertex is the
\* start of two edges.
C29_Original ==
    Consistent(mesh) =>
        \A k \in 1..Len(ring_collection) :
            /\ RingIsChain(ring_collection[k])
            /\ RingIsClosed(ring_collection[k])
            /\ RingStartsOnce(ring_collection[k])

\* C29: under a consistent adjacency table every ring the chaining step
\* produces is a closed head-to-tail chain; when no vertex of the mesh is
\* the start of two boundary edges, no vertex is the start of two edges of
\* the same ring.
C29_ClosedChains ==
    Consistent(mesh) =>
        \A k \in 1..Len(ring_collection) :
            /\ RingIsChain(ring_collection[k])
            /\ RingIsClosed(ring_collection[k])
            /\ NoPinchedVertex(mesh) => RingStartsOnce(ring_collection[k])

\* a ring of four edges has been produced on a mesh without pinched vertex
C29_Witness ==
    /\ Consistent(mesh) /\ NoPinchedVertex(mesh)
    /\ Len(ring_collection) >= 1
    /\ \E k \in 1..Len(ring_collection) : Len(ring_collection[k]) >= 4

\* C30: every iteration of the chaining loop removes exactly one edge from
\* the pool and puts none back, and the loop reaches the empty pool.
C30_ChainingTerminates ==
    /\ [][(pc = "chain" /\ pc' = "chain") =>
            \E k \in 1..Len(unique_edges) : unique_edges' = RemoveAt(unique_edges, k)]_vars
    /\ (pc = "chain") ~> (unique_edges = <<>>)

\* the pool has been emptied by iterations that closed a ring and
\* iterations that appended to one
C30_Witness ==
    /\ pc = "chain"
    /\ unique_edges = <<>>
    /\ Len(ring_collection) >= 2
    /\ Len(ring) >= 2


\* ------------------------------------------------------------------------
\* get_multipolygon_from_axes (geom/raster.py)
\* ------------------------------------------------------------------------
MaxRings == 3

\* a closed square ring as path.to_polygons(closed_only=True) returns it:
\* the first point is repeated at the end
SquareRing(ox, oy, s) ==
    << <<ox, oy>>, <<ox + s, oy>>, <<ox + s, oy + s>>, <<ox, oy + s>>, <<ox, oy>> >>

\* the rings the contour paths can hold: a region, holes cut out of it,
\* separate regions (one with a hole, two of equal area), a triangle
\* (4 points) and two degenerate polygons (3 and 2 points)
RingCatalogue ==
    { SquareRing(0, 0, 10),
      Reverse(SquareRing(2, 2, 2)),
      Reverse(SquareRing(6, 6, 3)),
      SquareRing(20, 0, 6),
      Reverse(SquareRing(22, 2, 2)),
      SquareRing(30, 0, 1),
      SquareRing(32, 0, 1),
      << <<40, 0>>, <<44, 0>>, <<40, 3>>, <<40, 0>> >>,
      << <<50, 0>>, <<51, 0>>, <<50, 0>> >>,
      << <<60, 0>>, <<61, 0>> >> }

\* sequences of at most n distinct rings
RECURSIVE RingSeqs(_)
RingSeqs(n) ==
    IF n = 0 THEN {<<>>}
    ELSE LET P == RingSeqs(n - 1)
         IN P \cup {Append(q, r) : <<q, r>> \in
                       {qr \in P \X RingCatalogue :
                           Len(qr[1]) = n - 1 /\ qr[2] \notin Range(qr[1])}}

\* shapely Polygon(ring).area: half the absolute shoelace sum
Area(r) ==
    Abs(SumSeq([k \in 1..(Len(r) - 1) |->
                   r[k][1] * r[k + 1][2] - r[k + 1][1] * r[k][2]])) \div 2

\* matplotlib Path(coords, closed=True).contains_point(p): even-odd crossing
\* count of the ray from p towards +x against the ring's edges
Crosses(p, a, b) ==
    /\ (a[2] > p[2]) # (b[2] > p[2])
    /\ IF b[2] > a[2]
       THEN (p[1] - a[1]) * (b[2] - a[2]) < (b[1] - a[1]) * (p[2] - a[2])
       ELSE (p[1] - a[1]) * (b[2] - a[2]) > (b[1] - a[1]) * (p[2] - a[2])

ContainsPoint(r, p) ==
    Cardinality({k \in 1..(Len(r) - 1) : Crosses(p, r[k], r[k + 1])}) % 2 = 1

\* mutant of LargestIndex: the first ring is taken whatever its area
LargestIndexFirst(coll) == 1

\* lines 178-180 / 193-195: np.where(areas == np.max(areas))[0][0]
LargestIndex(coll) ==
    CHOOSE k \in 1..Len(coll) :
        /\ \A kk \in 1..Len(coll) : Area(coll[kk]) <= Area(coll[k])
        /\ \A kk \in 1..(k - 1) : Area(coll[kk]) # Area(coll[k])

\* lines 185-190: scan the collection from its last ring to its first and
\* pop every ring whose first point lies inside the outer ring
RECURSIVE ScanHoles(_, _, _)
ScanHoles(coll, i, outer) ==
    IF i = 0 THEN [inner |-> <<>>, rest |-> coll]
    ELSE IF ContainsPoint(outer, coll[i][1])
         THEN LET t == ScanHoles(RemoveAt(coll, i), i - 1, outer)
              IN [inner |-> <<coll[i]>> \o t.inner, rest |-> t.rest]
         ELSE ScanHoles(coll, i - 1, outer)

\* shapely Polygon(shell, holes)
Polygon(shell, holes) == [exterior |-> shell, interiors |-> holes]

\* lines 168-175: keep the polygons with more than 3 points
ExtractRings ==
    /\ rpc = "start"
    /\ linear_ring_collection' = SelectSeq(paths, LAMBDA r : Len(r) > 3)
    /\ rpc' = "extracted"
    /\ UNCHANGED <<paths, outer_ring, polygon_collection, multipolygon, selected>>
    /\ UNCHANGED notRing

\* lines 176-183: more than one ring, select the first outer ring
SelectFirst ==
    /\ rpc = "extracted"
    /\ Len(linear_ring_collection) > 1
    /\ LET idx == LargestIndex(linear_ring_collection) IN
         /\ outer_ring' = linear_ring_collection[idx]
         /\ linear_ring_collection' = RemoveAt(linear_ring_collection, idx)
         /\ selected' = Append(selected, [outer |-> linear_ring_collection[idx],
                                          pool |-> linear_ring_collection])
    /\ polygon_collection' = <<>>
    /\ rpc' = "loop"
    /\ UNCHANGED <<paths, multipolygon>>
    /\ UNCHANGED notRing

\* lines 184-197: one iteration of the while loop
AssignHoles ==
    /\ rpc = "loop"
    /\ Len(linear_ring_collection) > 0
    /\ LET t == ScanHoles(linear_ring_collection, Len(linear_ring_collection), outer_ring)
       IN /\ polygon_collection' = Append(polygon_collection, Polygon(outer_ring, t.inner))
          /\ IF Len(t.rest) > 0
             THEN LET idx == LargestIndex(t.rest) IN
                    /\ outer_ring' = t.rest[idx]
                    /\ linear_ring_collection' = RemoveAt(t.rest, idx)
                    /\ selected' = Append(selected, [outer |-> t.rest[idx], pool |-> t.rest])
             ELSE /\ linear_ring_collection' = t.rest
                  /\ UNCHANGED <<outer_ring, selected>>
    /\ UNCHANGED <<paths, multipolygon, rpc>>
    /\ UNCHANGED notRing

\* line 198 and 202: the loop has ended, return the polygons emitted
ReturnPolygons ==
    /\ rpc = "loop"
    /\ Len(linear_ring_collection) = 0
    /\ multipolygon' = polygon_collection
    /\ rpc' = "done"
    /\ UNCHANGED <<paths, linear_ring_collection, outer_ring, polygon_collection, selected>>
    /\ UNCHANGED notRing

\* lines 199-202: at most one ring, emitted directly as a hole-free polygon
ReturnSingle ==
    /\ rpc = "extracted"
    /\ Len(linear_ring_collection) <= 1
    /\ IF linear_ring_collection = <<>>
       THEN /\ rpc' = "raised"            \* pop from empty list: IndexError
            /\ UNCHANGED <<linear_ring_collection, multipolygon, selected>>
       ELSE /\ multipolygon' = <<Polygon(linear_ring_collection[1], <<>>)>>
            /\ selected' = Append(selected, [outer |-> linear_ring_collection[1],
                                             pool |-> linear_ring_collection])
            /\ linear_ring_collection' = <<>>
            /\ rpc' = "done"
    /\ UNCHANGED <<paths, outer_ring, polygon_collection>>
    /\ UNCHANGED notRing

\* the rings of the input that survive extraction (more than 3 points)
ValidRings == {r \in Range(paths) : Len(r) > 3}

\* the polygons emitted so far
Emitted == IF rpc = "done" THEN multipolygon ELSE polygon_collection

\* the rings placed in the first n emitted polygons
Assigned(n) ==
    UNION {{Emitted[j].exterior} \cup Range(Emitted[j].interiors) : j \in 1..n}

\* the number of places (outer ring or hole of a polygon) that hold ring r
Occurrences(r) ==
    Cardinality({k \in 1..Len(Emitted) : Emitted[k].exterior = r})
    + Cardinality({ki \in (1..Len(Emitted)) \X (1..Len(paths)) :
                      /\ ki[2] <= Len(Emitted[ki[1]].interiors)
                      /\ Emitted[ki[1]].interiors[ki[2]] = r})

\* C4: on return every ring with at least 4 points is placed exactly once, as
\* the outer ring or a hole of one polygon, and a ring that no selected outer
\* ring contains is the outer ring of a polygon of its own.
C4_EveryRingPlacedOnce ==
    rpc = "done" =>
        /\ \A r \in ValidRings : Occurrences(r) = 1
        /\ \A r \in ValidRings :
              (\A k \in 1..Len(selected) :
                   selected[k].outer # r => ~ContainsPoint(selected[k].outer, r[1]))
              => \E k \in 1..Len(multipolygon) : multipolygon[k].exterior = r

C23_DegenerateRingsDropped ==
    /\ (\E r \in Range(paths) : Len(r) < 4) => rpc # "raised"
    /\ \A k \in 1..Len(Emitted) :
          /\ Len(Emitted[k].exterior) > 3
          /\ \A i \in 1..Len(Emitted[k].interiors) : Len(Emitted[k].interiors[i]) > 3

\* no call has been made yet
NoCall ==
    [op |-> "none", target_size |-> None, expansion_rate |-> 0,
     outcome |-> "none", first |-> TRUE,
     given |-> None, empty |-> FALSE, io |-> FALSE]

IdleHfun ==
    /\ hmin = None
    /\ hmax = None
    /\ field = <<>>
    /\ bound = <<>>
    /\ last = NoCall
    /\ prev = <<>>
    /\ applied = None
    /\ phase = "idle"

IdleResample ==
    /\ tf_linestring = <<>>
    /\ tf_target_size = 0
    /\ tf_result = None

IdleMesh ==
    /\ umesh = None
    /\ boundaries = <<>>
    /\ assigned = <<>>
    /\ created = "idle"
    /\ exposed = None
    /\ gr3_out = None

IdleCall ==
    /\ call = None
    /\ dst = <<>>
    /\ window = 0
    /\ completed = <<>>
    /\ before = <<>>
    /\ cpc = "idle"

IdleMsh ==
    /\ hraster = None
    /\ msh_out = None

IdleObj ==
    /\ obj = None
    /\ file = None
    /\ ret = None

IdleGeom ==
    /\ rgeom = None
    /\ domain = None
    /\ polygons = <<>>
    /\ jgeom = None

IdleRing ==
    /\ paths = <<>>
    /\ linear_ring_collection = <<>>
    /\ outer_ring = None
    /\ polygon_collection = <<>>
    /\ multipolygon = None
    /\ selected = <<>>
    /\ rpc = "idle"

IdlePSLG ==
    /\ mesh = None
    /\ unique_edges = <<>>
    /\ ring = <<>>
    /\ ring_collection = <<>>
    /\ pslg = None
    /\ pc = "idle"

InitRings ==
    /\ paths \in RingSeqs(MaxRings)
    /\ linear_ring_collection = <<>>
    /\ outer_ring = None
    /\ polygon_collection = <<>>
    /\ multipolygon = None
    /\ selected = <<>>
    /\ rpc = "start"
    /\ IdlePSLG
    /\ IdleHfun
    /\ IdleResample
    /\ IdleMesh
    /\ IdleCall
    /\ IdleMsh
    /\ IdleObj
    /\ IdleGeom

NextRings == ExtractRings \/ SelectFirst \/ AssignHoles \/ ReturnPolygons \/ ReturnSingle

\* ------------------------------------------------------------------------
\* HfunRaster (hfun/raster.py)
\* ------------------------------------------------------------------------
\* The raster is one row of NCells cells; cell c has its centre at x = c.
\* Features lie on the row, so that every distance is an integer.
NCells == 3
MaxTarget == 2
MaxRate == 1

\* np.finfo(np.float32).max, the value every cell is initialised to
\* (scaled down: it only has to exceed every candidate)
FloatMax == 1000

ChunkSize == 2
Overlap == 1

Cells == 0..(NCells - 1)

Min2(a, b) == IF a <= b THEN a ELSE b
Max2(a, b) == IF a >= b THEN a ELSE b

\* iter_windows(): blocks of ChunkSize cells widened by the overlap margin
\* and clipped to the raster, in raster order
Windows ==
    [k \in 1..((NCells + ChunkSize - 1) \div ChunkSize) |->
        {c \in Cells : /\ c >= (k - 1) * ChunkSize - Overlap
                       /\ c <= k * ChunkSize - 1 + Overlap}]

\* a line runs from x = l[1] to x = l[2]; a polyline visits l[1], l[2], ...
Lines == {l \in Cells \X Cells : l[1] # l[2]}

\* a LineString, or a MultiLineString of two lines laid end to end
Features ==
    {<<l>> : l \in Lines}
    \cup {<<ll[1], ll[2]>> : ll \in
             {x \in Lines \X Lines : x[1][2] = x[2][1] /\ x[2][2] # x[1][1]}}

\* linestring.length: the sum of the lengths of the segments
LineLength(l) == SumSeq([k \in 1..(Len(l) - 1) |-> Abs(l[k + 1] - l[k])])

\* mutant of SampleDistances: the end of the line is not appended
RECURSIVE SampleDistancesNoEnd(_, _, _)
SampleDistancesNoEnd(distances, target_size, length) ==
    IF distances[Len(distances)] + target_size < length
    THEN SampleDistancesNoEnd(Append(distances, distances[Len(distances)] + target_size),
                              target_size, length)
    ELSE distances

\* transform_features, lines 469-476: the arc lengths at which the line is sampled
RECURSIVE SampleDistances(_, _, _)
SampleDistances(distances, target_size, length) ==
    IF distances[Len(distances)] + target_size < length
    THEN SampleDistances(Append(distances, distances[Len(distances)] + target_size),
                         target_size, length)
    ELSE Append(distances, length)

\* the point at arc length d from vertex k of the line, walking its segments
RECURSIVE InterpolateFrom(_, _, _)
InterpolateFrom(l, k, d) ==
    IF k = Len(l) THEN l[k]
    ELSE LET seg == Abs(l[k + 1] - l[k])
         IN IF d <= seg
            THEN IF l[k + 1] > l[k] THEN l[k] + d ELSE l[k] - d
            ELSE InterpolateFrom(l, k + 1, d - seg)

\* linestring.interpolate(distance): the point at that arc length from the
\* start (a distance beyond the end gives the end point)
Interpolate(l, distance) == InterpolateFrom(l, 1, distance)

\* transform_features, lines 459-482 (dst_crs is None): the resampled line
transform_features(l, target_size) ==
    LET distances == SampleDistances(<<0>>, target_size, LineLength(l))
    IN [k \in 1..Len(distances) |-> Interpolate(l, distances[k])]

\* add_feature, lines 259-275: the points of all resampled lines
ResampledPoints(feature, target_size) ==
    UNION {Range(transform_features(feature[k], target_size)) : k \in 1..Len(feature)}

\* add_feature, lines 279 and 291: distance from cell c to the nearest point
NearestDistance(points, c) ==
    CHOOSE dd \in {Abs(c - q) : q \in points} :
        \A q \in points : dd <= Abs(c - q)

\* mutant of Candidate: target_size is not added
CandidateDistanceOnly(feature, target_size, expansion_rate, c) ==
    expansion_rate * target_size
        * NearestDistance(ResampledPoints(feature, target_size), c)

\* add_feature, line 293
Candidate(feature, target_size, expansion_rate, c) ==
    expansion_rate * target_size
        * NearestDistance(ResampledPoints(feature, target_size), c) + target_size

\* mutant of Clamp: the two comparisons are swapped
ClampSwapped(v) ==
    LET lo == IF hmin # None /\ v > The(hmin) THEN The(hmin) ELSE v
    IN IF hmax # None /\ lo < The(hmax) THEN The(hmax) ELSE lo

\* mutant of Clamp: only hmax is applied
ClampMaxOnly(v) == IF hmax # None /\ v > The(hmax) THEN The(hmax) ELSE v

\* add_feature, lines 296-299
Clamp(v) ==
    LET lo == IF hmin # None /\ v < The(hmin) THEN The(hmin) ELSE v
    IN IF hmax # None /\ lo > The(hmax) THEN The(hmax) ELSE lo

\* mutant of Merge: the candidate overwrites the stored value
MergeOverwrite(old, v) == v

\* add_feature, line 300: np.minimum(self.get_values(window), values)
Merge(old, v) == Min2(old, v)

\* add_feature, lines 236-305: the field behind the temporary file that
\* replaces self._tmpfile once every window has been written; the file is
\* created empty (zeros) and each window writes the cells it covers
ApplyFeature(f, feature, target_size, expansion_rate) ==
    LET blank == [c \in Cells |-> 0]
        RECURSIVE W(_, _)
        W(d, k) ==
            IF k > Len(Windows) THEN d
            ELSE W([c \in Cells |->
                       IF c \in Windows[k]
                       THEN Merge(f[c], Clamp(Candidate(feature, target_size,
                                                        expansion_rate, c)))
                       ELSE d[c]], k + 1)
    IN W(blank, 1)

\* the target sizes a caller may pass: negative, zero and positive
TargetSizes == (-1)..MaxTarget
Rates == 0..MaxRate

\* the ghost record of the constraints applied
Record(feature, target_size, expansion_rate) ==
    bound' = [c \in Cells |->
                 Min2(bound[c], Candidate(feature, target_size, expansion_rate, c))]

\* no constraint has been applied since construction
Fresh == \A c \in Cells : bound[c] = FloatMax

\* the record of a call: the target size in force, the outcome, whether the
\* field was still unconstrained, the target_size argument as given, whether
\* the raster has no line at the level asked for, and whether the raster
\* was read
Call(op, target_size, expansion_rate, outcome) ==
    [op |-> op, target_size |-> target_size, expansion_rate |-> expansion_rate,
     outcome |-> outcome, first |-> Fresh,
     given |-> target_size, empty |-> FALSE, io |-> outcome = "ok"]

ContourCall(given, target_size, expansion_rate, outcome, empty, io) ==
    [Call("add_contour", target_size, expansion_rate, outcome)
        EXCEPT !.given = given, !.empty = empty, !.io = io]

\* add_feature, lines 200-305
add_feature(feature, target_size, expansion_rate) ==
    /\ IF target_size <= 0
       THEN /\ last' = Call("add_feature", Some(target_size), expansion_rate, "ValueError")
            /\ UNCHANGED <<field, bound>>
       ELSE /\ field' = ApplyFeature(field, feature, target_size, expansion_rate)
            /\ Record(feature, target_size, expansion_rate)
            /\ last' = Call("add_feature", Some(target_size), expansion_rate, "ok")
    /\ UNCHANGED <<hmin, hmax>>
    /\ UNCHANGED notHfun

AddFeature ==
    \E feature \in Features, target_size \in TargetSizes, expansion_rate \in Rates :
        /\ add_feature(feature, target_size, expansion_rate)
        /\ UNCHANGED orderVars

\* mutant of EffectiveTargetSize: hmin is not taken as the default
EffectiveTargetSizeNoDefault(target_size) == target_size

\* add_contour, line 187
EffectiveTargetSize(target_size) == IF target_size = None THEN hmin ELSE target_size

\* mutant of ContourTargetInvalid: only the missing target size is refused
ContourTargetInvalidNoneOnly(target_size) == target_size = None

\* add_contour, lines 188-192: the two checks of the target size in force
ContourTargetInvalid(target_size) == target_size = None \/ The(target_size) <= 0

\* _get_raster_contours, lines 360-432.  The body of the window loop reads
\* y0, y1, x0, x1 before they are assigned when the crs is geographic (line
\* 378) and reads x, y, which are never assigned, when it is not (line 400,
\* after the window values have been read at line 394): with at least one
\* window the call raises UnboundLocalError whatever the raster holds.
\* With no window the loop is skipped and the merge of no line is returned.
get_raster_contours(contours, is_geographic) ==
    IF Len(Windows) > 0
    THEN [raised |-> "UnboundLocalError", contours |-> None, io |-> ~is_geographic]
    ELSE [raised |-> "none", contours |-> None, io |-> FALSE]

\* add_contour, lines 176-198; contours are the lines the raster holds at
\* the level (None: no line)
add_contour(contours, is_geographic, expansion_rate, target_size) ==
    /\ LET ts == EffectiveTargetSize(target_size)
           found == get_raster_contours(contours, is_geographic)
           empty == contours = None
       IN
         IF ContourTargetInvalid(ts)
         THEN /\ last' = ContourCall(target_size, ts, expansion_rate, "ValueError",
                                     empty, FALSE)
              /\ UNCHANGED <<field, bound>>
         ELSE IF found.raised # "none"
         THEN /\ last' = ContourCall(target_size, ts, expansion_rate, found.raised,
                                     empty, found.io)
              /\ UNCHANGED <<field, bound>>
         ELSE IF found.contours = None
         THEN /\ last' = ContourCall(target_size, ts, expansion_rate, "no contours",
                                     empty, found.io)
              /\ UNCHANGED <<field, bound>>
         ELSE /\ field' = ApplyFeature(field, The(found.contours), The(ts), expansion_rate)
              /\ Record(The(found.contours), The(ts), expansion_rate)
              /\ last' = ContourCall(target_size, ts, expansion_rate, "ok", empty, TRUE)
    /\ UNCHANGED <<hmin, hmax>>
    /\ UNCHANGED notHfun

AddContour ==
    \E contours \in {Some(f) : f \in Features} \cup {None}, is_geographic \in BOOLEAN,
       expansion_rate \in Rates, target_size \in {Some(t) : t \in TargetSizes} \cup {None} :
        /\ add_contour(contours, is_geographic, expansion_rate, target_size)
        /\ UNCHANGED orderVars

\* the configurations of hmin and hmax
MinLimits == {None, Some(MaxTarget)}
MaxLimits == {None, Some(1), Some(MaxTarget + 1)}

\* HfunRaster.__init__ and HfunInputRaster.__set__
InitHfun ==
    /\ hmin \in MinLimits
    /\ hmax \in MaxLimits
    /\ field = [c \in Cells |-> FloatMax]
    /\ bound = [c \in Cells |-> FloatMax]
    /\ last = NoCall
    /\ prev = <<>>
    /\ applied = None
    /\ phase = "idle"
    /\ IdlePSLG
    /\ IdleRing
    /\ IdleResample
    /\ IdleMesh
    /\ IdleCall
    /\ IdleMsh
    /\ IdleObj
    /\ IdleGeom

NextHfun == AddFeature \/ AddContour

\* the constraints of the two-constraint scenario: a single line, a
\* positive target size and an expansion rate
Constraints ==
    {[feature |-> <<x[1]>>, target_size |-> x[2], expansion_rate |-> x[3]] :
        x \in Lines \X (1..MaxTarget) \X Rates}

\* the constraints that give the scenario its starting field: the coarsest
\* target size graded at the largest expansion rate
StartConstraints ==
    {A \in Constraints : A.target_size = MaxTarget /\ A.expansion_rate = MaxRate}

\* two HfunRaster sessions on the same raster: an optional first constraint
\* gives the starting field, then constraint A is applied
ApplyStart ==
    /\ phase = "fresh"
    /\ \E A \in StartConstraints : add_feature(A.feature, A.target_size, A.expansion_rate)
    /\ phase' = "started"
    /\ UNCHANGED <<prev, applied>>

ApplyA ==
    /\ phase \in {"fresh", "started"}
    /\ \E A \in Constraints :
          /\ add_feature(A.feature, A.target_size, A.expansion_rate)
          /\ applied' = Some(A)
    /\ prev' = field
    /\ phase' = "applied"

InitOrder ==
    /\ hmin \in MinLimits
    /\ hmax \in MaxLimits
    /\ field = [c \in Cells |-> FloatMax]
    /\ bound = [c \in Cells |-> FloatMax]
    /\ last = NoCall
    /\ prev = <<>>
    /\ applied = None
    /\ phase = "fresh"
    /\ IdlePSLG
    /\ IdleRing
    /\ IdleResample
    /\ IdleMesh
    /\ IdleCall
    /\ IdleMsh
    /\ IdleObj
    /\ IdleGeom

NextOrder == ApplyStart \/ ApplyA

\* C6: no call ever increases the value of a cell.
C6_NeverIncreases == [][\A c \in Cells : field'[c] <= field[c]]_vars

\* a later constraint has been applied and a cell kept its smaller value
C6_Witness ==
    /\ last.outcome = "ok"
    /\ ~last.first
    /\ hmax = None
    /\ \E c \in Cells : field[c] < The(last.target_size)

\* C7 as stated: after any sequence of calls every cell lies in [hmin, hmax].
C7_Original ==
    (last.op # "none" /\ hmin # None /\ hmax # None) =>
        \A c \in Cells : The(hmin) <= field[c] /\ field[c] <= The(hmax)

\* C7: once a call has applied a constraint, and with hmin <= hmax, every
\* cell lies in [hmin, hmax].
C7_WithinLimitsOnceConstrained ==
    (~Fresh /\ hmin # None /\ hmax # None /\ The(hmin) <= The(hmax)) =>
        \A c \in Cells : The(hmin) <= field[c] /\ field[c] <= The(hmax)

\* a candidate below hmin was raised to hmin and one above hmax lowered to hmax
C7_Witness ==
    /\ ~Fresh /\ hmin # None /\ hmax # None /\ The(hmin) <= The(hmax)
    /\ \E c \in Cells : field[c] = The(hmin) /\ bound[c] < The(hmin)

\* C8 as stated: every cell is at most every applied constraint's unclamped
\* candidate.
C8_Original == \A c \in Cells : field[c] <= bound[c]

\* C8: every cell is at most every applied constraint's unclamped candidate
\* raised to hmin when hmin is set.
C8_AtMostCandidateOrHmin ==
    \A c \in Cells :
        field[c] <= (IF hmin = None THEN bound[c] ELSE Max2(bound[c], The(hmin)))

\* a cell holds hmin although a constraint's candidate there is smaller, and
\* another cell holds exactly the least candidate
C8_Witness ==
    /\ ~Fresh /\ hmin # None
    /\ \E c \in Cells : field[c] > bound[c]
    /\ \E c \in Cells : field[c] = bound[c]

\* C9: after A has been applied to a starting field, applying any B gives
\* the field that B then A gives, the cellwise minimum of A alone and B alone.
C9_OrderIndependent ==
    phase = "applied" =>
        \A B \in Constraints :
            LET A == The(applied)
                fA == field
                fB == ApplyFeature(prev, B.feature, B.target_size, B.expansion_rate)
                fAB == ApplyFeature(fA, B.feature, B.target_size, B.expansion_rate)
                fBA == ApplyFeature(fB, A.feature, A.target_size, A.expansion_rate)
            IN /\ fAB = fBA
               /\ \A c \in Cells : fAB[c] = Min2(fA[c], fB[c])

\* from a constrained starting field, A and some B each lower a cell the
\* other leaves alone
C9_Witness ==
    /\ phase = "applied"
    /\ \E c \in Cells : prev[c] < FloatMax
    /\ \E B \in Constraints :
          LET fB == ApplyFeature(prev, B.feature, B.target_size, B.expansion_rate)
          IN /\ \E c \in Cells : field[c] < fB[c]
             /\ \E c \in Cells : fB[c] < field[c]

\* C10 as stated: a first feature with expansion_rate = 0 leaves target_size
\* in every cell.
C10_Original ==
    (last.outcome = "ok" /\ last.first /\ last.expansion_rate = 0) =>
        \A c \in Cells : field[c] = The(last.target_size)

\* C10: a first feature with expansion_rate = 0 leaves in every cell
\* target_size raised to hmin and then lowered to hmax, where these are set.
C10_FlatFieldWithinLimits ==
    (last.outcome = "ok" /\ last.first /\ last.expansion_rate = 0) =>
        \A c \in Cells :
            LET ts == The(last.target_size)
                lo == IF hmin = None THEN ts ELSE Max2(ts, The(hmin))
            IN field[c] = (IF hmax = None THEN lo ELSE Min2(lo, The(hmax)))

\* a flat field whose value is the limit hmin, not target_size
C10_Witness ==
    /\ last.outcome = "ok" /\ last.first /\ last.expansion_rate = 0
    /\ hmin # None
    /\ \A c \in Cells : field[c] = The(hmin) /\ field[c] > The(last.target_size)

\* C19: add_contour at a level for which the raster has no line returns
\* without raising and leaves every cell of the field as it was.
C19_NoContoursIsNoOp ==
    [][(last'.op = "add_contour" /\ last'.empty /\ last'.outcome # "ValueError") =>
          (last'.outcome = "no contours" /\ field' = field)]_vars

\* C21: add_feature and add_contour called with target_size <= 0 fail with
\* ValueError before any window is read or written, and every cell of the
\* field keeps its value.
C21_NonPositiveTargetRejected ==
    [][(/\ last'.op \in {"add_feature", "add_contour"}
        /\ last'.given # None
        /\ The(last'.given) <= 0) =>
          (last'.outcome = "ValueError" /\ ~last'.io /\ field' = field)]_vars

\* a field that a feature has already constrained, on which add_feature
\* with a negative target_size has just been refused
C21_Witness ==
    /\ last.op = "add_feature" /\ last.given # None /\ The(last.given) < 0
    /\ last.outcome = "ValueError" /\ ~last.io
    /\ ~last.first
    /\ \E c \in Cells : field[c] < FloatMax

\* C20: add_contour without target_size on a field without hmin fails with
\* ValueError before the raster is read and leaves every cell as it was;
\* with hmin set, hmin is the target size in force and passes the check
\* of the target size exactly when it is positive.
C20_MissingTargetSize ==
    [][(last'.op = "add_contour" /\ last'.given = None) =>
          IF hmin = None
          THEN /\ last'.outcome = "ValueError"
               /\ ~last'.io
               /\ field' = field
          ELSE /\ last'.target_size = hmin
               /\ (last'.outcome = "ValueError") <=> (The(hmin) <= 0)]_vars

\* a field that a feature has already constrained, on which add_contour
\* without target_size and without hmin has just been refused
C20_Witness ==
    /\ last.op = "add_contour" /\ last.given = None /\ hmin = None
    /\ last.outcome = "ValueError" /\ ~last.io
    /\ ~last.first
    /\ \E c \in Cells : field[c] < FloatMax

InitPSLG ==
    /\ \E name \in MeshNames, r \in 0..2, rev \in BOOLEAN : mesh = MakeMesh(name, r, rev)
    /\ unique_edges = <<>>
    /\ ring = <<>>
    /\ ring_collection = <<>>
    /\ pslg = None
    /\ pc = "start"
    /\ IdleRing
    /\ IdleHfun
    /\ IdleResample
    /\ IdleMesh
    /\ IdleCall
    /\ IdleMsh
    /\ IdleObj
    /\ IdleGeom

NextPSLG == CollectEdges \/ ChainAppend \/ ChainClose \/ Classify

SpecPSLG == InitPSLG /\ [][NextPSLG]_vars

\* the call runs on: a step that is possible is eventually taken
SpecPSLGLive == InitPSLG /\ [][NextPSLG]_vars /\ WF_vars(NextPSLG)

SpecRings == InitRings /\ [][NextRings]_vars

SpecHfun == InitHfun /\ [][NextHfun]_vars

SpecOrder == InitOrder /\ [][NextOrder]_vars

\* ------------------------------------------------------------------------
\* transform_features (hfun/raster.py) applied to one line
\* ------------------------------------------------------------------------
MaxCoord == 4
MaxSpacing == 3

\* LineStrings of two or three vertices on the row; a line may double back
\* and may have coincident vertices
ResampleLines ==
    ((0..MaxCoord) \X (0..MaxCoord))
    \cup ((0..MaxCoord) \X (0..MaxCoord) \X (0..MaxCoord))

InitResample ==
    /\ tf_linestring \in ResampleLines
    /\ tf_target_size \in 1..MaxSpacing
    /\ tf_result = None
    /\ IdlePSLG
    /\ IdleRing
    /\ IdleHfun
    /\ IdleMesh
    /\ IdleCall
    /\ IdleMsh
    /\ IdleObj
    /\ IdleGeom

\* transform_features, lines 459-482, on a LineString with dst_crs = None
TransformFeatures ==
    /\ tf_result = None
    /\ tf_result' =
          Some([distances |-> SampleDistances(<<0>>, tf_target_size,
                                              LineLength(tf_linestring)),
                coords |-> transform_features(tf_linestring, tf_target_size)])
    /\ UNCHANGED <<tf_linestring, tf_target_size>>
    /\ UNCHANGED notResample

\* the caller drops the resampled line
Discard ==
    /\ tf_result # None
    /\ tf_result' = None
    /\ UNCHANGED <<tf_linestring, tf_target_size>>
    /\ UNCHANGED notResample

NextResample == TransformFeatures \/ Discard

\* C11: a line of length L resampled at spacing s > 0 is sampled at arc
\* lengths that start at 0 and end exactly at L, the end point of the line;
\* every gap between consecutive samples is at most s, and only the last
\* gap may be shorter than s.
C11_ResamplingCoverage ==
    tf_result # None =>
        LET d == The(tf_result).distances
            xs == The(tf_result).coords
            n == Len(d)
        IN /\ n >= 2
           /\ Len(xs) = n
           /\ d[1] = 0
           /\ xs[1] = tf_linestring[1]
           /\ d[n] = LineLength(tf_linestring)
           /\ xs[n] = tf_linestring[Len(tf_linestring)]
           /\ \A k \in 1..(n - 1) : d[k] <= d[k + 1] /\ d[k + 1] - d[k] <= tf_target_size
           /\ \A k \in 1..(n - 2) : d[k + 1] - d[k] = tf_target_size

\* a line that doubles back was sampled several times and its last gap is short
C11_Witness ==
    /\ tf_result # None
    /\ Len(tf_linestring) = 3
    /\ tf_linestring[2] > tf_linestring[1]
    /\ tf_linestring[3] < tf_linestring[2]
    /\ LET d == The(tf_result).distances
       IN /\ Len(d) >= 3
          /\ d[Len(d)] - d[Len(d) - 1] < tf_target_size

SpecResample == InitResample /\ [][NextResample]_vars

\* ------------------------------------------------------------------------
\* UnstructuredMesh (mesh.py): values, boundary groups and the gr3 text
\* ------------------------------------------------------------------------
\* A float is a sign and a magnitude, or nan; the magnitudes of the model
\* are integers.  Zero has a sign, as in IEEE arithmetic.
Float(neg, mag) == [nan |-> FALSE, neg |-> neg, mag |-> mag]
NaN == [nan |-> TRUE, neg |-> FALSE, mag |-> 0]
FromInt(n) == Float(n < 0, Abs(n))

\* unary minus
Negate(f) == IF f.nan THEN f ELSE [f EXCEPT !.neg = ~f.neg]

\* the digits after the decimal point in "{:<.16E}"
Digits == 16

\* the decimal digits of n > 0, most significant first
RECURSIVE DecimalDigits(_)
DecimalDigits(n) == IF n < 10 THEN <<n>> ELSE Append(DecimalDigits(n \div 10), n % 10)

\* "{:d}".format(n)
IntTok(n) == <<"d", n>>

\* literal text
Txt(t) == <<"s", t>>

\* "{:<.16E}".format(f): sign, one digit, Digits digits, exponent; nan prints
\* as NAN whatever its sign
FormatE(f) ==
    IF f.nan THEN <<"E", TRUE, FALSE, <<>>, 0>>
    ELSE LET ds == IF f.mag = 0 THEN <<0>> ELSE DecimalDigits(f.mag)
         IN <<"E", FALSE, f.neg,
              [k \in 1..(Digits + 1) |-> IF k <= Len(ds) THEN ds[k] ELSE 0],
              Len(ds) - 1>>

\* 10^n
RECURSIVE Pow10(_)
Pow10(n) == IF n = 0 THEN 1 ELSE 10 * Pow10(n - 1)

\* float(text) of a number printed by FormatE
ParseE(tok) ==
    IF tok[2] THEN NaN
    ELSE Float(tok[3],
               SumSeq([k \in 1..(tok[5] + 1) |-> tok[4][k] * Pow10(tok[5] + 1 - k)]))

\* the concatenation of a sequence of sequences
RECURSIVE Concat(_)
Concat(ss) == IF ss = <<>> THEN <<>> ELSE Head(ss) \o Concat(Tail(ss))

\* the vertex indices 0 .. n-1 of the mesh
VertexIds == 0..(Len(umesh.vertices) - 1)

\* mutant of Where: index 0 is taken for a false entry
WhereSkipZero(mask) ==
    LET S == {v \in DOMAIN mask : mask[v] /\ v # 0}
        RECURSIVE Asc(_)
        Asc(T) == IF T = {} THEN <<>>
                  ELSE LET m == CHOOSE a \in T : \A b \in T : a <= b
                       IN <<m>> \o Asc(T \ {m})
    IN Asc(S)

\* np.where(mask)[0]: the indices of the true entries, ascending
Where(mask) ==
    LET S == {v \in DOMAIN mask : mask[v]}
        RECURSIVE Asc(_)
        Asc(T) == IF T = {} THEN <<>>
                  ELSE LET m == CHOOSE a \in T : \A b \in T : a <= b
                       IN <<m>> \o Asc(T \ {m})
    IN Asc(S)

\* the boolean mask, one entry per vertex, that is true at the listed vertices
MaskOf(indexes) == [v \in VertexIds |-> v \in Range(indexes)]

Categories == {"ocean", "land", "inner", "inflow", "outflow", "weir", "culvert"}
Paired == {"weir", "culvert"}

\* the seven OrderedDicts of __init__, lines 24-30
NoBoundaries == [c \in Categories |-> <<>>]

\* the keys and the dicts of an OrderedDict, in insertion order
KeysIn(od) == [k \in 1..Len(od) |-> od[k][1]]

\* self.__get_ordered_indexes(indexes) for the ocean group `key': the
\* vertices of the group in the order of the loop traversal that assigned them
get_ordered_indexes(key, indexes) ==
    LET k == CHOOSE j \in 1..Len(assigned["ocean"]) : assigned["ocean"][j][1] = key
    IN assigned["ocean"][k][2].indexes

\* lines 357-364
ocean_boundaries ==
    [k \in 1..Len(boundaries["ocean"]) |->
        LET key == boundaries["ocean"][k][1]
            stored == boundaries["ocean"][k][2]
        IN <<key, get_ordered_indexes(key, Where(stored.bool))>>]

\* lines 366-391: land_boundaries, inner_boundaries and inflow_boundaries
\* are the same code over the three dicts
simple_boundaries(category) ==
    [k \in 1..Len(boundaries[category]) |->
        LET stored == boundaries[category][k][2]
        IN <<boundaries[category][k][1],
             [indexes |-> Where(stored.bool), ibtype |-> stored.ibtype]>>]

land_boundaries == simple_boundaries("land")
inner_boundaries == simple_boundaries("inner")
inflow_boundaries == simple_boundaries("inflow")

\* lines 393-400
outflow_boundaries ==
    [k \in 1..Len(boundaries["outflow"]) |->
        LET stored == boundaries["outflow"][k][2]
        IN <<boundaries["outflow"][k][1],
             [indexes |-> Where(stored.bool), ibtype |-> stored.ibtype,
              barrier_heights |-> stored.barrier_heights,
              subcritical_flow_coefficients |-> stored.subcritical_flow_coefficients]>>]

\* lines 402-411
weir_boundaries ==
    [k \in 1..Len(boundaries["weir"]) |->
        LET stored == boundaries["weir"][k][2]
        IN <<boundaries["weir"][k][1],
             [front_face_indexes |-> Where(stored.bool_front_face),
              back_face_indexes |-> Where(stored.bool_back_face),
              ibtype |-> stored.ibtype,
              barrier_heights |-> stored.barrier_heights,
              subcritical_flow_coefficients |-> stored.subcritical_flow_coefficients,
              supercritical_flow_coefficients |-> stored.supercritical_flow_coefficients]>>]

\* lines 413-422
culvert_boundaries ==
    [k \in 1..Len(boundaries["culvert"]) |->
        LET stored == boundaries["culvert"][k][2]
        IN <<boundaries["culvert"][k][1],
             [front_face_indexes |-> Where(stored.bool_front_face),
              back_face_indexes |-> Where(stored.bool_back_face),
              ibtype |-> stored.ibtype,
              barrier_heights |-> stored.barrier_heights,
              subcritical_flow_coefficients |-> stored.subcritical_flow_coefficients,
              supercritical_flow_coefficients |-> stored.supercritical_flow_coefficients,
              cross_barrier_pipe_heights |-> stored.cross_barrier_pipe_heights,
              friction_factors |-> stored.friction_factors,
              pipe_diameters |-> stored.pipe_diameters]>>]

\* `for idx in boundary' over a group dict yields the keys of the dict
DictKeys(category) ==
    CASE category \in {"land", "inner", "inflow"} -> <<"indexes", "ibtype">>
      [] category = "outflow" ->
            <<"indexes", "ibtype", "barrier_heights", "subcritical_flow_coefficients">>
      [] category = "weir" ->
            <<"front_face_indexes", "back_face_indexes", "ibtype", "barrier_heights",
              "subcritical_flow_coefficients", "supercritical_flow_coefficients">>
      [] category = "culvert" ->
            <<"front_face_indexes", "back_face_indexes", "ibtype", "barrier_heights",
              "subcritical_flow_coefficients", "supercritical_flow_coefficients",
              "cross_barrier_pipe_heights", "friction_factors", "pipe_diameters">>

\* lines 301-307: the ocean groups are index lists
ocean_boundary == Concat([k \in 1..Len(ocean_boundaries) |-> ocean_boundaries[k][2]])

\* lines 309-315: the only flattening that reads boundary['indexes']
land_boundary == Concat([k \in 1..Len(land_boundaries) |-> land_boundaries[k][2].indexes])

\* lines 317-355: the other flattenings iterate over the group dict itself
inner_boundary == Concat([k \in 1..Len(inner_boundaries) |-> DictKeys("inner")])
inflow_boundary == Concat([k \in 1..Len(inflow_boundaries) |-> DictKeys("inflow")])
outflow_boundary == Concat([k \in 1..Len(outflow_boundaries) |-> DictKeys("outflow")])
weir_boundary == Concat([k \in 1..Len(weir_boundaries) |-> DictKeys("weir")])
culvert_boundary == Concat([k \in 1..Len(culvert_boundaries) |-> DictKeys("culvert")])

\* lines 289-299: np.arange(1, n + 1), rebuilt at every read
node_id == [i \in 1..Len(umesh.values) |-> i]
element_id == [i \in 1..Len(umesh.elements) |-> i]

num_nodes == Len(umesh.vertices)
num_elements == Len(umesh.elements)

\* mutant of NodeLine: the value is written without the sign flip
NodeLineSameSign(i) ==
    <<IntTok(node_id[i + 1] + 1),
      FormatE(FromInt(umesh.vertices[i + 1][1])),
      FormatE(FromInt(umesh.vertices[i + 1][2])),
      FormatE(umesh.values[i + 1])>>

\* gr3, lines 435-439: the line of the node at 0-based position i
NodeLine(i) ==
    <<IntTok(node_id[i + 1] + 1),
      FormatE(FromInt(umesh.vertices[i + 1][1])),
      FormatE(FromInt(umesh.vertices[i + 1][2])),
      FormatE(Negate(umesh.values[i + 1]))>>

\* gr3, lines 440-445: the line of the element at 0-based position i
ElementLine(i) ==
    <<IntTok(element_id[i + 1] + 1), IntTok(3),
      IntTok(umesh.elements[i + 1][1] + 1),
      IntTok(umesh.elements[i + 1][2] + 1),
      IntTok(umesh.elements[i + 1][3] + 1)>>

\* gr3, lines 446-454
OceanSection ==
    << <<IntTok(Len(KeysIn(ocean_boundaries))), Txt("! total number of ocean boundaries")>>,
       <<IntTok(Len(ocean_boundary)), Txt("! total number of ocean boundary nodes")>> >>
    \o Concat([k \in 1..Len(ocean_boundaries) |->
          LET indexes == ocean_boundaries[k][2]
          IN << <<IntTok(Len(indexes)), Txt("! number of nodes for ocean_boundary_"),
                  Txt(ocean_boundaries[k][1])>> >>
             \o [j \in 1..Len(indexes) |-> <<IntTok(indexes[j] + 1)>>]])

\* gr3, lines 455-471
NonOceanCounts ==
    << <<IntTok(Len(KeysIn(land_boundaries)) + Len(KeysIn(inner_boundaries))
                + Len(KeysIn(inflow_boundaries)) + Len(KeysIn(outflow_boundaries))
                + Len(KeysIn(weir_boundaries)) + Len(KeysIn(culvert_boundaries))),
         Txt("! total number of non-ocean boundaries")>>,
       <<IntTok(Len(land_boundary) + Len(inner_boundary) + Len(inflow_boundary)
                + Len(outflow_boundary) + Len(weir_boundary) + Len(culvert_boundary)),
         Txt("! total number of non-ocean boundary nodes")>> >>

\* gr3, lines 472-492: the land, inner and inflow groups of an exposed dict
SimpleGroups(groups, name) ==
    Concat([k \in 1..Len(groups) |->
        LET g == groups[k][2]
        IN << <<IntTok(Len(g.indexes)), IntTok(g.ibtype),
                Txt("! number of nodes and ibtype for " \o name \o "_boundary_"),
                Txt(groups[k][1])>> >>
           \o [j \in 1..Len(g.indexes) |-> <<IntTok(g.indexes[j] + 1)>>]])

\* gr3, lines 493-503
OutflowGroups ==
    Concat([k \in 1..Len(outflow_boundaries) |->
        LET g == outflow_boundaries[k][2]
        IN << <<IntTok(Len(g.indexes)), IntTok(g.ibtype),
                Txt("! number of nodes and ibtype for outflow_boundary_"),
                Txt(outflow_boundaries[k][1])>> >>
           \o [j \in 1..Len(g.indexes) |->
                 <<IntTok(g.indexes[j] + 1),
                   FormatE(FromInt(g.barrier_heights[j])),
                   FormatE(FromInt(g.subcritical_flow_coefficients[j]))>>]])

\* gr3, lines 504-517: one record per front-face index
WeirGroups ==
    Concat([k \in 1..Len(weir_boundaries) |->
        LET g == weir_boundaries[k][2]
        IN << <<IntTok(Len(g.front_face_indexes)), IntTok(g.ibtype),
                Txt("! number of nodes and ibtype for weir_boundary_"),
                Txt(weir_boundaries[k][1])>> >>
           \o [j \in 1..Len(g.front_face_indexes) |->
                 <<IntTok(g.front_face_indexes[j] + 1),
                   IntTok(g.back_face_indexes[j] + 1),
                   FormatE(FromInt(g.barrier_heights[j])),
                   FormatE(FromInt(g.subcritical_flow_coefficients[j])),
                   FormatE(FromInt(g.supercritical_flow_coefficients[j]))>>]])

\* an index past the end of a list: gr3 reads element j of each list for
\* every j below the header count
Short(count, lists) == \E k \in 1..Len(lists) : Len(lists[k]) < count

\* gr3, lines 432-535: the exception that ends the read, or "none".  A
\* culvert group has no key 'indexes' (line 518); a mesh built without a
\* SpatialReference has None where line 534 calls ExportToWkt.
Gr3Raises ==
    IF \E k \in 1..Len(outflow_boundaries) :
          LET g == outflow_boundaries[k][2]
          IN Short(Len(g.indexes), <<g.barrier_heights, g.subcritical_flow_coefficients>>)
    THEN "IndexError"
    ELSE IF \E k \in 1..Len(weir_boundaries) :
          LET g == weir_boundaries[k][2]
          IN Short(Len(g.front_face_indexes),
                   <<g.back_face_indexes, g.barrier_heights,
                     g.subcritical_flow_coefficients, g.supercritical_flow_coefficients>>)
    THEN "IndexError"
    ELSE IF Len(culvert_boundaries) > 0 THEN "KeyError"
    ELSE IF umesh.SpatialReference = None THEN "AttributeError"
    ELSE "none"

\* the gr3 property, lines 431-535: the lines of the text, each a tuple of
\* fields; the culvert loop of lines 518-533 raises at its first group and
\* writes nothing when there is none
gr3 ==
    IF Gr3Raises # "none" THEN [raised |-> Gr3Raises, lines |-> <<>>]
    ELSE [raised |-> "none",
          lines |->
            << <<Txt("description")>>,
               <<IntTok(num_elements), IntTok(num_nodes)>> >>
            \o [i \in 1..num_nodes |-> NodeLine(i - 1)]
            \o [i \in 1..num_elements |-> ElementLine(i - 1)]
            \o OceanSection
            \o NonOceanCounts
            \o SimpleGroups(land_boundaries, "land")
            \o SimpleGroups(inner_boundaries, "inner")
            \o SimpleGroups(inflow_boundaries, "inflow")
            \o OutflowGroups
            \o WeirGroups
            \o << <<Txt(The(umesh.SpatialReference))>> >>]

\* __init__, lines 19-30, and the _values setter, lines 596-602: values = None
\* gives one nan per vertex
UnstructuredMesh(vertices, elements, values, SpatialReference) ==
    [vertices |-> vertices, elements |-> elements,
     values |-> IF values = None THEN [i \in 1..Len(vertices) |-> NaN] ELSE The(values),
     SpatialReference |-> SpatialReference]

\* the values a vertex may carry
ValueChoices == {FromInt(-2), FromInt(0), FromInt(15), NaN}

\* the spatial reference of a mesh: none, or one whose WKT is the text "wkt"
References == {None, Some("wkt")}

\* meshes with a value per vertex, and a mesh built without values
MeshInputs ==
    {UnstructuredMesh(MakeMesh(x[1], x[2], x[3]).xy, MakeMesh(x[1], x[2], x[3]).tris,
                      Some(x[4]), x[5]) :
        x \in {y \in {"single"} \X (0..2) \X BOOLEAN
                       \X [1..3 -> ValueChoices] \X References : TRUE}}
    \cup {UnstructuredMesh(MakeMesh("quad", 0, rev).xy, MakeMesh("quad", 0, rev).tris,
                           Some(v), sr) :
             rev \in BOOLEAN, v \in [1..4 -> {FromInt(0), FromInt(15)}], sr \in References}
    \cup {UnstructuredMesh(MakeMesh("bowtie", 0, FALSE).xy, MakeMesh("bowtie", 0, FALSE).tris,
                           None, sr) : sr \in References}

\* a read of the gr3 property
ReadGr3 ==
    /\ gr3_out = None
    /\ gr3_out' = Some(gr3)
    /\ UNCHANGED <<umesh, boundaries, assigned, created, exposed>>
    /\ UNCHANGED notMesh

\* a read of the seven *_boundaries properties
ReadBoundaries ==
    /\ exposed = None
    /\ gr3_out = None
    /\ exposed' = Some([ocean |-> ocean_boundaries, land |-> land_boundaries,
                        inner |-> inner_boundaries, inflow |-> inflow_boundaries,
                        outflow |-> outflow_boundaries, weir |-> weir_boundaries,
                        culvert |-> culvert_boundaries])
    /\ UNCHANGED <<umesh, boundaries, assigned, created, gr3_out>>
    /\ UNCHANGED notMesh

\* a mesh as the engine returns it: no boundary group yet
InitGr3 ==
    /\ umesh \in MeshInputs
    /\ boundaries = NoBoundaries
    /\ assigned = NoBoundaries
    /\ created = "none"
    /\ exposed = None
    /\ gr3_out = None
    /\ IdlePSLG
    /\ IdleRing
    /\ IdleHfun
    /\ IdleResample
    /\ IdleCall
    /\ IdleMsh
    /\ IdleObj
    /\ IdleGeom

NextGr3 == ReadBoundaries \/ ReadGr3

\* the text has been produced
Written == gr3_out # None /\ The(gr3_out).raised = "none"

\* the lines of the text that are node records (an id and three floats) and
\* element records (five integers), in the order of the text
IsNodeRecord(line) ==
    /\ Len(line) = 4
    /\ line[1][1] = "d"
    /\ \A k \in 2..4 : line[k][1] = "E"
IsElementRecord(line) == Len(line) = 5 /\ \A k \in 1..5 : line[k][1] = "d"

\* C13: the node at 0-based position i is written with id i+1, the element
\* at position j with id j+1, each element line lists its vertices as index
\* + 1, and so every vertex id of an element line is the id of the node
\* line of that vertex.
C13_IdsArePositionsPlusOne ==
    Written =>
        LET lines == The(gr3_out).lines
        IN /\ \A i \in 0..(num_nodes - 1) : lines[3 + i][1] = IntTok(i + 1)
           /\ \A j \in 0..(num_elements - 1) :
                 /\ lines[3 + num_nodes + j][1] = IntTok(j + 1)
                 /\ \A k \in 1..3 :
                       LET v == umesh.elements[j + 1][k]
                       IN /\ lines[3 + num_nodes + j][2 + k] = IntTok(v + 1)
                          /\ lines[3 + v][1] = lines[3 + num_nodes + j][2 + k]

SpecGr3 == InitGr3 /\ [][NextGr3]_vars

\* ------------------------------------------------------------------------
\* the boundary groups of a mesh
\* ------------------------------------------------------------------------
MaxGroups == 2

\* the vertex lists a loop traversal may assign to a group of the single
\* triangle: each vertex at most once, in traversal order
IndexLists == {<<0>>, <<2, 0>>, <<1, 2, 0>>}
Keys == {"a", "b"}
ParamLengths == 1..3

\* the ibtype a category is created with
Ibtype(category) ==
    CASE category = "ocean" -> 0
      [] category = "land" -> 20
      [] category = "inner" -> 21
      [] category = "inflow" -> 22
      [] category = "outflow" -> 23
      [] category = "weir" -> 24
      [] category = "culvert" -> 25

\* n per-pair values
Params(n) == [k \in 1..n |-> k]

NumGroups == SumSeq([k \in 1..7 |->
    Len(boundaries[<<"ocean", "land", "inner", "inflow", "outflow", "weir", "culvert">>[k]])])

HasKey(category, key) ==
    \E k \in 1..Len(boundaries[category]) : boundaries[category][k][1] = key

\* the dict a group is stored as: boolean masks over the vertices and the
\* metadata of the category
StoredDict(category, indexes, back, n) ==
    CASE category = "ocean" -> [bool |-> MaskOf(indexes)]
      [] category \in {"land", "inner", "inflow"} ->
            [bool |-> MaskOf(indexes), ibtype |-> Ibtype(category)]
      [] category = "outflow" ->
            [bool |-> MaskOf(indexes), ibtype |-> Ibtype(category),
             barrier_heights |-> Params(n),
             subcritical_flow_coefficients |-> Params(n)]
      [] category = "weir" ->
            [bool_front_face |-> MaskOf(indexes), bool_back_face |-> MaskOf(back),
             ibtype |-> Ibtype(category),
             barrier_heights |-> Params(n),
             subcritical_flow_coefficients |-> Params(n),
             supercritical_flow_coefficients |-> Params(n)]
      [] category = "culvert" ->
            [bool_front_face |-> MaskOf(indexes), bool_back_face |-> MaskOf(back),
             ibtype |-> Ibtype(category),
             barrier_heights |-> Params(n),
             subcritical_flow_coefficients |-> Params(n),
             supercritical_flow_coefficients |-> Params(n),
             cross_barrier_pipe_heights |-> Params(n),
             friction_factors |-> Params(n),
             pipe_diameters |-> Params(n)]

\* creation of a group: a duplicate name is rejected, a weir or culvert
\* group whose lists differ in length is rejected, otherwise the membership
\* is stored as masks with the metadata
CreateGroup(category, key, indexes, back, n) ==
    /\ exposed = None
    /\ gr3_out = None
    /\ NumGroups < MaxGroups
    /\ IF HasKey(category, key)
       THEN /\ created' = "rejected: duplicate name"
            /\ UNCHANGED <<boundaries, assigned>>
       ELSE IF category \in Paired /\ ~(Len(indexes) = Len(back) /\ Len(back) = n)
       THEN /\ created' = "rejected: invalid"
            /\ UNCHANGED <<boundaries, assigned>>
       ELSE /\ created' = "accepted"
            /\ boundaries' = [boundaries EXCEPT ![category] =
                                 Append(@, <<key, StoredDict(category, indexes, back, n)>>)]
            /\ assigned' = [assigned EXCEPT ![category] =
                               Append(@, <<key, [indexes |-> indexes, back |-> back,
                                                 n |-> n]>>)]
    /\ UNCHANGED <<umesh, exposed, gr3_out>>
    /\ UNCHANGED notMesh

\* groups of one list take no back face; outflow parameters come one per vertex
Create ==
    \/ \E category \in {"ocean", "land", "inner", "inflow"}, key \in Keys,
          indexes \in IndexLists :
            CreateGroup(category, key, indexes, <<>>, 0)
    \/ \E key \in Keys, indexes \in IndexLists :
            CreateGroup("outflow", key, indexes, <<>>, Len(indexes))
    \/ \E category \in Paired, key \in Keys, indexes \in IndexLists,
          back \in IndexLists, n \in ParamLengths :
            CreateGroup(category, key, indexes, back, n)

\* the single triangle as the engine returns it, with a spatial reference
InitBoundary ==
    /\ umesh = UnstructuredMesh(MakeMesh("single", 0, FALSE).xy,
                                MakeMesh("single", 0, FALSE).tris, None, Some("wkt"))
    /\ boundaries = NoBoundaries
    /\ assigned = NoBoundaries
    /\ created = "none"
    /\ exposed = None
    /\ gr3_out = None
    /\ IdlePSLG
    /\ IdleRing
    /\ IdleHfun
    /\ IdleResample
    /\ IdleCall
    /\ IdleMsh
    /\ IdleObj
    /\ IdleGeom

NextBoundary == Create \/ ReadBoundaries \/ ReadGr3

SpecBoundary == InitBoundary /\ [][NextBoundary]_vars

\* the lists of vertex indices a read of the properties returned for group
\* k of a category: one list, or the front and the back face
ExposedLists(category, k) ==
    LET g == The(exposed)[category][k][2]
    IN IF category = "ocean" THEN <<g>>
       ELSE IF category \in Paired THEN <<g.front_face_indexes, g.back_face_indexes>>
       ELSE <<g.indexes>>

\* the lists in the order in which they were assigned
AssignedLists(category, k) ==
    LET a == assigned[category][k][2]
    IN IF category \in Paired THEN <<a.indexes, a.back>> ELSE <<a.indexes>>

\* the records of the text that hold one vertex id: those of the ocean,
\* land, inner and inflow groups
IsIndexRecord(line) == Len(line) = 1 /\ line[1][1] = "d"

\* C12: every group of every category is returned by the query properties,
\* and written to the text, with its vertices in the loop-traversal order in
\* which they were assigned, never re-sorted into ascending index order.
C12_GroupsKeepTraversalOrder ==
    /\ exposed # None =>
          \A category \in Categories : \A k \in 1..Len(The(exposed)[category]) :
              ExposedLists(category, k) = AssignedLists(category, k)
    /\ Written =>
          LET written == SelectSeq(The(gr3_out).lines, IsIndexRecord)
              order == Concat([c \in 1..4 |->
                          LET category == <<"ocean", "land", "inner", "inflow">>[c]
                          IN Concat([k \in 1..Len(assigned[category]) |->
                                        assigned[category][k][2].indexes])])
          IN written = [j \in 1..Len(order) |-> <<IntTok(order[j] + 1)>>]

\* the line that opens the combined non-ocean section of the text
NonOceanStart(lines) ==
    CHOOSE p \in 1..Len(lines) :
        /\ Len(lines[p]) = 2
        /\ lines[p][2] = Txt("! total number of non-ocean boundaries")

\* a group header of the non-ocean section: a count, an ibtype and the name
IsGroupHeader(line) ==
    /\ Len(line) = 4
    /\ line[1][1] = "d"
    /\ line[2][1] = "d"
    /\ line[3][1] = "s"

\* the positions of the group headers after position p, ascending
HeadersAfter(lines, p) ==
    SelectSeq([i \in 1..Len(lines) |-> i],
              LAMBDA i : i > p /\ IsGroupHeader(lines[i]))

\* C14: in the combined non-ocean section the first number is the number of
\* land, inner, inflow, outflow, weir and culvert groups, the second is the
\* sum of the node counts of the group headers, and the count of each header
\* is the number of records under it; the text is produced for every
\* combination of groups the mesh holds.
C14_NonOceanCountsAgree ==
    /\ gr3_out # None => The(gr3_out).raised = "none"
    /\ Written =>
          LET lines == The(gr3_out).lines
              p == NonOceanStart(lines)
              hs == HeadersAfter(lines, p + 1)
              \* the records of header j end at the next header or at the last line
              stop(j) == IF j < Len(hs) THEN hs[j + 1] ELSE Len(lines)
          IN /\ lines[p][1] = IntTok(Len(hs))
             /\ Len(hs) = NumGroups - Len(boundaries["ocean"])
             /\ lines[p + 1][1] = IntTok(SumSeq([j \in 1..Len(hs) |-> lines[hs[j]][1][2]]))
             /\ \A j \in 1..Len(hs) : lines[hs[j]][1][2] = stop(j) - hs[j] - 1

MaxProcs == 2

\* multiprocessing.cpu_count() and the worker counts a caller may pass
Procs == 1..MaxProcs

TheCall == The(call)

\* lines 262-263: one task per line of the feature
Tasks == 1..Len(TheCall.feature)

\* the tasks of the window's pool that have returned
Returned == {completed[i][2] : i \in {j \in 1..Len(completed) : completed[j][1] = window}}

Pending == Tasks \ Returned

\* Pool(processes=nprocs), line 260: the workers take the tasks in order, so
\* a task is running when fewer than nprocs unfinished tasks precede it
InFlight ==
    {k \in Pending : Cardinality({j \in Pending : j < k}) < TheCall.nprocs}

\* pool.starmap, lines 261-265: the results in the order of the tasks,
\* whatever the order in which the workers returned them
starmap(done, w, n) ==
    [k \in 1..n |->
        LET i == CHOOSE j \in 1..Len(done) : done[j][1] = w /\ done[j][2] = k
        IN done[i][3]]

\* mutant of Points: each geometry replaces the points collected before it
PointsReplaced(transformed_features) ==
    transformed_features[Len(transformed_features)]

\* lines 268-274: points.extend(geom.coords) for every resampled line
RECURSIVE Points(_)
Points(transformed_features) ==
    IF transformed_features = <<>> THEN <<>>
    ELSE Head(transformed_features) \o Points(Tail(transformed_features))

\* lines 279-299: the values of the cells of window w, from the points in
\* the tree, before they are merged with the current field
WindowValues(points, target_size, expansion_rate, w) ==
    [c \in Windows[w] |->
        Clamp(expansion_rate * target_size * NearestDistance(Range(points), c)
                  + target_size)]

\* mutant of write_band: the values are written to the file behind
\* self._tmpfile
write_band_in_place(tmpfile, d, w, values) ==
    [tmpfile |-> [c \in Cells |-> IF c \in Windows[w] THEN values[c] ELSE tmpfile[c]],
     dst |-> d]

\* dst.write_band(1, values, window=window), line 303: the values go to the
\* new file; the file behind self._tmpfile is left as it is
write_band(tmpfile, d, w, values) ==
    [tmpfile |-> tmpfile,
     dst |-> [c \in Cells |-> IF c \in Windows[w] THEN values[c] ELSE d[c]]]

\* lines 221-239: nprocs None or -1 means cpu_count(); target_size is
\* checked; the new file is opened
StartCall ==
    /\ cpc = "idle"
    /\ \E feature \in Features, target_size \in TargetSizes, expansion_rate \in Rates,
          nprocs \in {None} \cup {Some(n) : n \in Procs}, cpu_count \in Procs :
          /\ before' = field
          /\ IF target_size <= 0
             THEN /\ cpc' = "rejected"
                  /\ UNCHANGED <<call, dst, window>>
             ELSE /\ call' = Some([feature |-> feature, target_size |-> target_size,
                                   expansion_rate |-> expansion_rate,
                                   nprocs |-> IF nprocs = None THEN cpu_count
                                              ELSE The(nprocs)])
                  /\ dst' = [c \in Cells |-> 0]
                  /\ window' = 1
                  /\ cpc' = "resampling"
    /\ UNCHANGED <<field, completed, hmin, hmax, bound, last, orderVars>>
    /\ UNCHANGED notCall

\* a worker returns the resampled line of its task
TaskDone ==
    /\ cpc = "resampling"
    /\ \E k \in InFlight :
          completed' = Append(completed,
              <<window, k, transform_features(TheCall.feature[k], TheCall.target_size)>>)
    /\ UNCHANGED <<call, dst, window, before, cpc>>
    /\ UNCHANGED <<hmin, hmax, field, bound, last, orderVars>>
    /\ UNCHANGED notCall

\* a worker raises: starmap raises in the coordinating process, the with
\* blocks are left and the call fails before line 305
TaskFails ==
    /\ cpc = "resampling"
    /\ InFlight # {}
    /\ cpc' = "failed"
    /\ UNCHANGED <<call, dst, window, completed, before>>
    /\ UNCHANGED <<hmin, hmax, field, bound, last, orderVars>>
    /\ UNCHANGED notCall

\* lines 266-304: all tasks of the window have returned; the values of the
\* window are computed, merged with the current field and written
WriteWindow ==
    /\ cpc = "resampling"
    /\ Pending = {}
    /\ LET transformed_features == starmap(completed, window, Len(TheCall.feature))
           values == WindowValues(Points(transformed_features), TheCall.target_size,
                                  TheCall.expansion_rate, window)
           merged == [c \in Windows[window] |-> Merge(field[c], values[c])]
           written == write_band(field, dst, window, merged)
       IN /\ field' = written.tmpfile
          /\ dst' = written.dst
    /\ IF window = Len(Windows)
       THEN cpc' = "written" /\ window' = window
       ELSE cpc' = "resampling" /\ window' = window + 1
    /\ UNCHANGED <<call, completed, before>>
    /\ UNCHANGED <<hmin, hmax, bound, last, orderVars>>
    /\ UNCHANGED notCall

\* a step of lines 266-304 raises (building the tree, reading the window,
\* writing the band): the call fails before line 305
WindowFails ==
    /\ cpc = "resampling"
    /\ Pending = {}
    /\ cpc' = "failed"
    /\ UNCHANGED <<call, dst, window, completed, before>>
    /\ UNCHANGED <<hmin, hmax, field, bound, last, orderVars>>
    /\ UNCHANGED notCall

\* line 305: self._tmpfile = tmpfile
Commit ==
    /\ cpc = "written"
    /\ field' = dst
    /\ cpc' = "done"
    /\ UNCHANGED <<call, dst, window, completed, before>>
    /\ UNCHANGED <<hmin, hmax, bound, last, orderVars>>
    /\ UNCHANGED notCall

\* the fields a call may find: the unconstrained field and one that a
\* feature has graded
StartFields ==
    {[c \in Cells |-> FloatMax],
     ApplyFeature([c \in Cells |-> FloatMax], <<<<0, 1>>>>, 1, 1)}

InitCall ==
    /\ hmin \in MinLimits
    /\ hmax \in MaxLimits
    /\ field \in StartFields
    /\ bound = <<>>
    /\ last = NoCall
    /\ prev = <<>>
    /\ applied = None
    /\ phase = "idle"
    /\ IdleCall
    /\ IdlePSLG
    /\ IdleRing
    /\ IdleResample
    /\ IdleMesh
    /\ IdleMsh
    /\ IdleObj
    /\ IdleGeom

\* add_contour called on each of the fields a call may find
InitContour ==
    /\ hmin \in MinLimits
    /\ hmax \in MaxLimits
    /\ \E graded \in BOOLEAN :
          /\ field = IF graded
                     THEN ApplyFeature([c \in Cells |-> FloatMax], <<<<0, 1>>>>, 1, 1)
                     ELSE [c \in Cells |-> FloatMax]
          /\ bound = IF graded
                     THEN [c \in Cells |-> Candidate(<<<<0, 1>>>>, 1, 1, c)]
                     ELSE [c \in Cells |-> FloatMax]
    /\ last = NoCall
    /\ prev = <<>>
    /\ applied = None
    /\ phase = "idle"
    /\ IdleCall
    /\ IdlePSLG
    /\ IdleRing
    /\ IdleResample
    /\ IdleMesh
    /\ IdleMsh
    /\ IdleObj
    /\ IdleGeom

NextContour == AddContour

SpecContour == InitContour /\ [][NextContour]_vars

NextCall == StartCall \/ TaskDone \/ TaskFails \/ WriteWindow \/ WindowFails \/ Commit

SpecCall == InitCall /\ [][NextCall]_vars

\* C17: while add_feature runs and after a task or a window has failed,
\* every cell of the field holds the value it had before the call.
C17_FailureLeavesField ==
    cpc \in {"resampling", "written", "failed"} => field = before

\* the call failed in the second window, after the first had been written
\* to the new file with values that differ from the field
C17_Witness ==
    /\ cpc = "failed"
    /\ window = 2
    /\ \E c \in Windows[1] : dst[c] # 0 /\ dst[c] # before[c]
    /\ field = before

\* C18: the field a finished add_feature leaves is the one determined by
\* the field before, the feature, target_size and expansion_rate alone,
\* whatever nprocs and the order in which the tasks returned; while the call
\* runs the new file holds exactly the windows before the current one.
C18_IndependentOfWorkers ==
    /\ cpc = "done" =>
          field = ApplyFeature(before, TheCall.feature, TheCall.target_size,
                               TheCall.expansion_rate)
    /\ cpc = "resampling" =>
          \A c \in Cells :
              dst[c] = IF \E k \in 1..(window - 1) : c \in Windows[k]
                       THEN ApplyFeature(before, TheCall.feature, TheCall.target_size,
                                         TheCall.expansion_rate)[c]
                       ELSE 0

\* a finished call with two workers in which the second line was returned
\* before the first, and which lowered a cell
C18_Witness ==
    /\ cpc = "done"
    /\ TheCall.nprocs = 2
    /\ \E i, j \in 1..Len(completed) :
          /\ i < j
          /\ completed[i][1] = completed[j][1]
          /\ completed[i][2] > completed[j][2]
    /\ \E c \in Cells : field[c] < before[c]

\* ------------------------------------------------------------------------
\* HfunRaster.msh_t (hfun/raster.py, lines 75-174)
\* ------------------------------------------------------------------------
\* Raster.iter_windows(): one window over the whole raster when the raster
\* has no chunk size (as at lines 42-47), else the chunked windows
iter_windows == IF hraster.chunk_size = None THEN <<Cells>> ELSE Windows

\* a window given by the caller: any run of neighbouring cells
Intervals == {a..b : <<a, b>> \in {ab \in Cells \X Cells : ab[1] <= ab[2]}}

\* mutant of TooManyWindows: two windows are let through
TooManyWindowsOverTwo(windows) == Len(windows) > 2

\* line 82
TooManyWindows(windows) == Len(windows) > 1

\* lines 88-165: the engine called on the size grid of one window; the mesh
\* it returns is determined by what it is given
jigsaw(w) ==
    LET value == [c \in w |-> field[c]]
        least == CHOOSE v \in {value[c] : c \in w} : \A c \in w : v <= value[c]
        most == CHOOSE v \in {value[c] : c \in w} : \A c \in w : value[c] <= v
    IN [window |-> w, value |-> value,
        hfun_hmin |-> IF hmin = None THEN least ELSE The(hmin),
        hfun_hmax |-> IF hmax = None THEN most ELSE The(hmax),
        reprojected |-> hraster.is_geographic]

\* msh_t, lines 75-174: output_mesh is bound anew in every pass of the
\* loop, so the mesh returned is that of the last window
msh_t(win) ==
    LET windows == IF win = None THEN iter_windows ELSE <<The(win)>>
    IN IF TooManyWindows(windows)
       THEN [window |-> win, raised |-> "NotImplementedError", engine_calls |-> 0,
             mesh |-> None]
       ELSE IF Len(windows) = 0
       THEN [window |-> win, raised |-> "UnboundLocalError", engine_calls |-> 0,
             mesh |-> None]
       ELSE [window |-> win, raised |-> "none", engine_calls |-> Len(windows),
             mesh |-> Some(jigsaw(windows[Len(windows)]))]

MshT ==
    /\ \E win \in {None} \cup {Some(w) : w \in Intervals} : msh_out' = Some(msh_t(win))
    /\ UNCHANGED <<hraster, hfunVars>>
    /\ UNCHANGED notMsh

InitMsh ==
    /\ hmin \in MinLimits
    /\ hmax \in MaxLimits
    /\ field \in StartFields
    /\ bound = <<>>
    /\ last = NoCall
    /\ prev = <<>>
    /\ applied = None
    /\ phase = "idle"
    /\ hraster \in [chunk_size : {None, Some(ChunkSize)}, is_geographic : BOOLEAN]
    /\ msh_out = None
    /\ IdleCall
    /\ IdlePSLG
    /\ IdleRing
    /\ IdleResample
    /\ IdleMesh
    /\ IdleObj
    /\ IdleGeom

NextMsh == MshT

SpecMsh == InitMsh /\ [][NextMsh]_vars

\* C22: msh_t without a window argument on a raster that iterates more than
\* one window raises NotImplementedError without calling the engine, and a
\* mesh that is returned is built from every window the call had to process.
C22_MultiWindowNotSupported ==
    msh_out # None =>
        LET o == The(msh_out)
            windows == IF o.window = None THEN iter_windows ELSE <<The(o.window)>>
        IN /\ (o.window = None /\ Len(iter_windows) > 1) =>
                  /\ o.raised = "NotImplementedError"
                  /\ o.engine_calls = 0
                  /\ o.mesh = None
           /\ o.mesh # None =>
                  The(o.mesh).window = UNION {windows[k] : k \in 1..Len(windows)}

\* the call was refused on a graded field kept in more than one window
C22_Witness ==
    /\ msh_out # None
    /\ The(msh_out).window = None
    /\ The(msh_out).raised = "NotImplementedError"
    /\ Len(iter_windows) > 1
    /\ \E c \in Cells : field[c] < FloatMax

\* ---------------------------------------------------------------------------
\* UnstructuredMesh: the attribute dictionary, the description and write_gr3
\* (mesh.py, lines 54-94, 198-208, 231-238, 253-254, 289-293, 424-433, 537-539)

\* the attribute names a caller uses, and the key the values property uses
AttrNames == {"a", "b"}
ValuesKey == "__values"

\* the description a caller sets, and the identifiers uuid4().hex[:8] may give
Descriptions == {"s"}
Uuids == {"0a1b2c3d", "4e5f6a7b"}

\* a dict, as the function from its keys; {} has no key
EmptyDict == [k \in {} |-> None]
PutKey(d, k, v) == [x \in DOMAIN d \cup {k} |-> IF x = k THEN v ELSE d[x]]
PopKey(d, k) == [x \in DOMAIN d \ {k} |-> d[x]]

\* the outcome of a method: what it raised, self.__attributes after it (None
\* while no such attribute exists on the object), and what it returned
Res(raised, attributes, value) ==
    [raised |-> raised, attributes |-> attributes, value |-> value]

\* get_attribute_names, lines 93-94, and has_attribute, lines 62-66: both read
\* self.__attributes, which raises while the object has no such attribute
has_attribute(attributes, name) ==
    IF attributes = None THEN Res("AttributeError", attributes, None)
    ELSE Res("none", attributes, name \in DOMAIN The(attributes))

\* add_attribute, lines 54-60
add_attribute(attributes, name) ==
    LET has == has_attribute(attributes, name)
    IN IF has.raised # "none" THEN has
       ELSE IF has.value THEN Res("AttributeError", attributes, None)
       ELSE Res("none", Some(PutKey(The(attributes), name, None)), None)

\* get_attribute, lines 68-71
get_attribute(attributes, name) ==
    LET has == has_attribute(attributes, name)
    IN IF has.raised # "none" THEN has
       ELSE IF ~has.value THEN Res("AttributeError", attributes, None)
       ELSE Res("none", attributes, The(attributes)[name])

\* set_attribute, lines 73-84: the list must have one entry per vertex, or
\* one per element when elements is True
set_attribute(attributes, name, vals, elements) ==
    LET has == has_attribute(attributes, name)
    IN IF has.raised # "none" THEN has
       ELSE IF ~has.value THEN Res("AttributeError", attributes, None)
       ELSE IF Len(vals) # (IF elements THEN Len(umesh.elements)
                                        ELSE Len(umesh.vertices))
       THEN Res("AssertionError", attributes, None)
       ELSE Res("none", Some(PutKey(The(attributes), name, Some(vals))), None)

\* remove_attribute, lines 86-91
remove_attribute(attributes, name) ==
    LET has == has_attribute(attributes, name)
    IN IF has.raised # "none" THEN has
       ELSE IF ~has.value THEN Res("AttributeError", attributes, None)
       ELSE Res("none", Some(PopKey(The(attributes), name)), None)

\* the values property, lines 231-238. hasattr(self, "__attributes") looks for
\* the name as written, while the assignments inside the class store it under
\* the mangled name _UnstructuredMesh__attributes: the test is False at every
\* read and line 234 starts from a new dict
get_values(attributes) ==
    LET fresh == Some(EmptyDict)
        has == has_attribute(fresh, ValuesKey)
        added == IF has.value THEN fresh
                 ELSE add_attribute(fresh, ValuesKey).attributes
        stored == IF has.value THEN added
                  ELSE set_attribute(added, ValuesKey, umesh.values, FALSE).attributes
    IN Res("none", stored, The(The(stored)[ValuesKey]))

\* the node_id property, lines 289-293: hasattr(self, "__node_id") is False
\* for the same reason, so len(self.values) is evaluated at every read
get_node_id(attributes) ==
    LET v == get_values(attributes)
    IN Res("none", v.attributes, [i \in 1..Len(v.value) |-> i])

\* the xyz property, lines 253-254, 44-47 and 96-120: transform_vertices
\* asserts that the mesh has a spatial reference, then self.values is read and
\* numpy.hstack refuses to join the (n, 2) array with the (n,) array
get_xyz(attributes) ==
    IF umesh.SpatialReference = None THEN Res("AssertionError", attributes, None)
    ELSE Res("ValueError", get_values(attributes).attributes, None)

\* the description property, lines 424-429: the stored description, or a new
\* random identifier at each read while self.__description does not exist
description(o) ==
    IF o.description # None THEN {The(o.description)} ELSE Uuids

\* the gr3 property, lines 431-535, with the description that line 433 read
gr3_described(d) ==
    IF gr3.raised # "none" THEN gr3 ELSE [gr3 EXCEPT !.lines[1] = <<Txt(d)>>]

\* a read of gr3 on the object: its text or what it raised, and the attribute
\* dict after it (lines 435-439 read node_id and values for every node)
get_gr3(attributes, d) ==
    LET after == IF num_nodes > 0 THEN get_values(attributes).attributes
                 ELSE attributes
    IN Res(gr3_described(d).raised, after, gr3_described(d).lines)

\* the record of the last operation
Op(op, arg, res) ==
    [op |-> op, arg |-> arg, raised |-> res.raised, value |-> res.value]

\* the content of a file that was there before the call
OldText == << <<Txt("old")>> >>

\* the list passed to set_attribute: one entry per vertex of the triangle, so
\* that elements = True is refused
AttrValues == {<<FromInt(0), FromInt(15), FromInt(0)>>}

AddAttribute ==
    \E name \in AttrNames :
        LET r == add_attribute(obj.attributes, name)
        IN /\ obj' = [obj EXCEPT !.attributes = r.attributes]
           /\ ret' = Op("add_attribute", <<name>>, r)
           /\ UNCHANGED <<file, meshVars, notObj>>

SetAttribute ==
    \E name \in AttrNames, vals \in AttrValues, elements \in BOOLEAN :
        LET r == set_attribute(obj.attributes, name, vals, elements)
        IN /\ obj' = [obj EXCEPT !.attributes = r.attributes]
           /\ ret' = Op("set_attribute", <<name, vals, elements>>, r)
           /\ UNCHANGED <<file, meshVars, notObj>>

RemoveAttribute ==
    \E name \in AttrNames \cup {ValuesKey} :
        LET r == remove_attribute(obj.attributes, name)
        IN /\ obj' = [obj EXCEPT !.attributes = r.attributes]
           /\ ret' = Op("remove_attribute", <<name>>, r)
           /\ UNCHANGED <<file, meshVars, notObj>>

GetAttribute ==
    \E name \in AttrNames :
        LET r == get_attribute(obj.attributes, name)
        IN /\ obj' = [obj EXCEPT !.attributes = r.attributes]
           /\ ret' = Op("get_attribute", <<name>>, r)
           /\ UNCHANGED <<file, meshVars, notObj>>

HasAttribute ==
    \E name \in AttrNames :
        LET r == has_attribute(obj.attributes, name)
        IN /\ obj' = [obj EXCEPT !.attributes = r.attributes]
           /\ ret' = Op("has_attribute", <<name>>, r)
           /\ UNCHANGED <<file, meshVars, notObj>>

ReadValues ==
    LET r == get_values(obj.attributes)
    IN /\ obj' = [obj EXCEPT !.attributes = r.attributes]
       /\ ret' = Op("values", <<>>, r)
       /\ UNCHANGED <<file, meshVars, notObj>>

ReadNodeId ==
    LET r == get_node_id(obj.attributes)
    IN /\ obj' = [obj EXCEPT !.attributes = r.attributes]
       /\ ret' = Op("node_id", <<>>, r)
       /\ UNCHANGED <<file, meshVars, notObj>>

ReadXyz ==
    LET r == get_xyz(obj.attributes)
    IN /\ obj' = [obj EXCEPT !.attributes = r.attributes]
       /\ ret' = Op("xyz", <<>>, r)
       /\ UNCHANGED <<file, meshVars, notObj>>

\* a read of the gr3 property of the object
ReadGr3Text ==
    \E d \in description(obj) :
        LET r == get_gr3(obj.attributes, d)
        IN /\ obj' = [obj EXCEPT !.attributes = r.attributes]
           /\ ret' = Op("gr3", <<>>, r)
           /\ UNCHANGED <<file, meshVars, notObj>>

\* the description setter, lines 537-539: it assigns self.__decription
SetDescription ==
    \E s \in Descriptions :
        /\ obj' = [obj EXCEPT !.decription = Some(s)]
        /\ ret' = Op("set_description", <<s>>, Res("none", obj.attributes, None))
        /\ UNCHANGED <<file, meshVars, notObj>>

ReadDescription ==
    \E d \in description(obj) :
        /\ ret' = Op("description", <<>>, Res("none", obj.attributes, d))
        /\ UNCHANGED <<obj, file, meshVars, notObj>>

\* write_gr3, lines 198-208: with a path, an existing file and overwrite False
\* raise before the file is opened; otherwise open(path, 'w') empties or
\* creates the file, then self.gr3 is evaluated and written. Without a path
\* the text is printed
WriteGr3 ==
    \E path \in {None, Some("p")}, overwrite \in BOOLEAN, d \in description(obj) :
        LET r == get_gr3(obj.attributes, d)
        IN IF path # None /\ file # None /\ ~overwrite
           THEN /\ ret' = Op("write_gr3", <<path, overwrite>>,
                             Res("Exception", obj.attributes, None))
                /\ UNCHANGED <<obj, file, meshVars, notObj>>
           ELSE /\ obj' = [obj EXCEPT !.attributes = r.attributes]
                /\ file' = IF path = None THEN file
                           ELSE IF r.raised # "none" THEN Some(<<>>)
                           ELSE Some(r.value)
                /\ ret' = Op("write_gr3", <<path, overwrite>>,
                             Res(r.raised, r.attributes, None))
                /\ UNCHANGED <<meshVars, notObj>>

\* a mesh of one triangle just built, with or without a spatial reference;
\* __init__ creates neither __attributes nor __description
InitObj ==
    /\ umesh \in {UnstructuredMesh(MakeMesh("single", 0, FALSE).xy,
                                   MakeMesh("single", 0, FALSE).tris,
                                   Some(<<FromInt(-2), FromInt(0), FromInt(15)>>), sr) :
                     sr \in References}
    /\ boundaries = NoBoundaries
    /\ assigned = NoBoundaries
    /\ created = "none"
    /\ exposed = None
    /\ gr3_out = None
    /\ obj = [attributes |-> None, description |-> None, decription |-> None]
    /\ file \in {None, Some(OldText)}
    /\ ret = Op("__init__", <<>>, Res("none", None, None))
    /\ IdlePSLG
    /\ IdleRing
    /\ IdleHfun
    /\ IdleResample
    /\ IdleCall
    /\ IdleMsh
    /\ IdleGeom

NextObj ==
    \/ AddAttribute
    \/ SetAttribute
    \/ RemoveAttribute
    \/ GetAttribute
    \/ HasAttribute
    \/ ReadValues
    \/ ReadNodeId
    \/ ReadXyz
    \/ ReadGr3Text
    \/ SetDescription
    \/ ReadDescription
    \/ WriteGr3

SpecObj == InitObj /\ [][NextObj]_vars

\* the attribute is in the dict with the values a set_attribute gave it
Stored(o, name) ==
    /\ o.attributes # None
    /\ name \in DOMAIN The(o.attributes)
    /\ The(o.attributes)[name] # None

\* C25: write_gr3 with a path: when a file exists and overwrite is False the
\* call raises and leaves the content unchanged; with overwrite True, or when
\* no file exists, the content after the call is the gr3 text of the mesh.
C25_WriteGr3 ==
    [][(ret'.op = "write_gr3" /\ ret'.arg[1] # None) =>
          IF file # None /\ ~ret'.arg[2]
          THEN ret'.raised # "none" /\ file' = file
          ELSE \E d \in description(obj') :
                  /\ gr3_described(d).raised = "none"
                  /\ file' = Some(gr3_described(d).lines)]_vars

\* C26: once the description was set to s, a read of description returns s,
\* the first line of every gr3 text is s, and two successive gr3 texts of the
\* unchanged mesh are identical.
C26_DescriptionKept ==
    [][/\ (obj'.decription # None /\ ret'.op = "description") =>
              ret'.value = The(obj'.decription)
       /\ (obj'.decription # None /\ ret'.op = "gr3" /\ ret'.raised = "none") =>
              ret'.value[1] = <<Txt(The(obj'.decription))>>
       /\ (/\ ret.op = "gr3" /\ ret.raised = "none"
           /\ ret'.op = "gr3" /\ ret'.raised = "none") =>
              ret'.value = ret.value]_vars

\* C27: an attribute that was added and given values stays in the dict with
\* the same values after every operation other than a remove_attribute or a
\* set_attribute of its name, reads of values, xyz, node_id and gr3 included.
C27_AttributeStays ==
    [][\A name \in AttrNames :
          (/\ Stored(obj, name)
           /\ ~(/\ ret'.op \in {"remove_attribute", "set_attribute"}
                /\ ret'.arg[1] = name)) =>
             (/\ Stored(obj', name)
              /\ The(obj'.attributes)[name] = The(obj.attributes)[name])]_vars

\* ---------------------------------------------------------------------------
\* BaseGeom.geom (geom/base.py, lines 17-56)
MaxPolygons == 2

\* float('inf'), line 24, as a coordinate beyond every other
Inf == 1000000

\* coords[:-1]
ButLast(coords) == [k \in 1..(Len(coords) - 1) |-> coords[k]]

\* the exterior and the interiors of a polygon, in the order of line 35
RingsOf(polygon) == <<polygon.exterior>> \o polygon.interiors

\* the rings of a MultiPolygon, polygon after polygon
RECURSIVE AllRings(_)
AllRings(mp) ==
    IF mp = <<>> THEN <<>> ELSE RingsOf(Head(mp)) \o AllRings(Tail(mp))

\* lines 22-24: every coordinate of the exterior is inf
AllInf(polygon) ==
    \A k \in 1..Len(polygon.exterior) :
        polygon.exterior[k][1] = Inf /\ polygon.exterior[k][2] = Inf

\* lines 20-31: the points of every ring without its closing point
RECURSIVE vert2(_)
vert2(rings) ==
    IF rings = <<>> THEN <<>> ELSE ButLast(Head(rings)) \o vert2(Tail(rings))

\* mutant of ring_edges: the closing edge ends on the second vertex
ring_edges_off(linear_ring) ==
    LET run == [i \in 1..(Len(linear_ring) - 2) |-> <<i - 1, i>>]
    IN Append(run, <<run[Len(run)][2], run[1][2]>>)

\* lines 37-40: _edge2 of one ring, in the ring's own numbering
ring_edges(linear_ring) ==
    LET run == [i \in 1..(Len(linear_ring) - 2) |-> <<i - 1, i>>]
    IN Append(run, <<run[Len(run)][2], run[1][1]>>)

\* lines 33-43: every ring's edges shifted by the number of edges before them
RECURSIVE edge2(_, _)
edge2(rings, acc) ==
    IF rings = <<>> THEN acc
    ELSE edge2(Tail(rings),
               acc \o [k \in 1..Len(ring_edges(Head(rings))) |->
                          <<ring_edges(Head(rings))[k][1] + Len(acc),
                            ring_edges(Head(rings))[k][2] + Len(acc)>>])

\* the geom property: NotImplementedError for a polygon at infinity,
\* IndexError at line 40 for a ring of fewer than 3 points (_edge2 is empty)
geom(mp) ==
    IF \E k \in 1..Len(mp) : AllInf(mp[k])
    THEN [raised |-> "NotImplementedError", vert2 |-> <<>>, edge2 |-> <<>>]
    ELSE IF \E k \in 1..Len(AllRings(mp)) : Len(AllRings(mp)[k]) < 3
    THEN [raised |-> "IndexError", vert2 |-> <<>>, edge2 |-> <<>>]
    ELSE [raised |-> "none", vert2 |-> vert2(AllRings(mp)),
          edge2 |-> edge2(AllRings(mp), <<>>)]

\* the polygons a MultiPolygon is made of: regions of the ring catalogue with
\* and without holes, and a region at infinity
GeomPolygons ==
    { Polygon(SquareRing(0, 0, 10), <<>>),
      Polygon(SquareRing(0, 0, 10), <<Reverse(SquareRing(2, 2, 2))>>),
      Polygon(SquareRing(0, 0, 10),
              <<Reverse(SquareRing(2, 2, 2)), Reverse(SquareRing(6, 6, 3))>>),
      Polygon(SquareRing(20, 0, 6), <<>>),
      Polygon(SquareRing(20, 0, 6), <<Reverse(SquareRing(22, 2, 2))>>),
      Polygon(SquareRing(30, 0, 1), <<>>),
      Polygon(SquareRing(32, 0, 1), <<>>),
      Polygon(<< <<40, 0>>, <<44, 0>>, <<40, 3>>, <<40, 0>> >>, <<>>),
      Polygon(SquareRing(Inf, Inf, 0), <<>>) }

\* sequences of at most n polygons with distinct exteriors
RECURSIVE MultiPolygons(_)
MultiPolygons(n) ==
    IF n = 0 THEN {<<>>}
    ELSE LET P == MultiPolygons(n - 1)
         IN P \cup {Append(qp[1], qp[2]) : qp \in
                       {x \in P \X GeomPolygons :
                           /\ Len(x[1]) = n - 1
                           /\ \A k \in 1..Len(x[1]) :
                                 x[1][k].exterior # x[2].exterior}}

\* a read of the geom property
ReadGeom ==
    /\ jgeom = None
    /\ jgeom' = Some(geom(polygons))
    /\ UNCHANGED <<rgeom, domain, polygons>>
    /\ UNCHANGED notGeom

InitGeom ==
    /\ polygons \in MultiPolygons(MaxPolygons)
    /\ jgeom = None
    /\ rgeom = None
    /\ domain = None
    /\ IdlePSLG
    /\ IdleRing
    /\ IdleHfun
    /\ IdleResample
    /\ IdleMesh
    /\ IdleCall
    /\ IdleMsh
    /\ IdleObj

NextGeom == ReadGeom

SpecGeom == InitGeom /\ [][NextGeom]_vars

\* the geometry has been built
Built == jgeom # None /\ The(jgeom).raised = "none"

\* the index of the first vertex of the k-th ring: the points before it
RECURSIVE FirstVertex(_, _)
FirstVertex(rings, k) ==
    IF k = 1 THEN 0 ELSE FirstVertex(rings, k - 1) + Len(rings[k - 1]) - 1

\* the vertex indices of the k-th ring
Block(rings, k) ==
    FirstVertex(rings, k)..(FirstVertex(rings, k) + Len(rings[k]) - 2)

\* the vertex reached from v after n edges, where an edge leaves v
RECURSIVE Follow(_, _, _)
Follow(edges, v, n) ==
    IF n = 0 THEN v
    ELSE LET out == {k \in 1..Len(edges) : edges[k][1] = Follow(edges, v, n - 1)}
         IN IF out = {} THEN -1 ELSE edges[CHOOSE k \in out : TRUE][2]

\* the edges that touch the block form one closed cycle over the block
OneCycle(edges, block) ==
    LET touching == {k \in 1..Len(edges) :
                        edges[k][1] \in block \/ edges[k][2] \in block}
        first == CHOOSE v \in block : \A w \in block : v <= w
    IN /\ \A k \in touching : edges[k][1] \in block /\ edges[k][2] \in block
       /\ Cardinality(touching) = Cardinality(block)
       /\ \A v \in block :
             /\ Cardinality({k \in touching : edges[k][1] = v}) = 1
             /\ Cardinality({k \in touching : edges[k][2] = v}) = 1
       /\ {Follow(edges, first, n) : n \in 0..(Cardinality(block) - 1)} = block
       /\ Follow(edges, first, Cardinality(block)) = first

\* C28: in every geometry that geom builds there are as many edges as
\* vertices, every edge endpoint is the index of a vertex, the vertices of a
\* ring are its own points, and the edges that touch a ring's vertices form
\* one closed cycle over exactly those vertices.
C28_RingsAreCycles ==
    Built =>
        LET g == The(jgeom)
            rings == AllRings(polygons)
        IN /\ Len(g.edge2) = Len(g.vert2)
           /\ \A k \in 1..Len(g.edge2) :
                 /\ g.edge2[k][1] \in 0..(Len(g.vert2) - 1)
                 /\ g.edge2[k][2] \in 0..(Len(g.vert2) - 1)
           /\ \A r \in 1..Len(rings) :
                 /\ \A v \in Block(rings, r) :
                       g.vert2[v + 1] = rings[r][v - FirstVertex(rings, r) + 1]
                 /\ OneCycle(g.edge2, Block(rings, r))

\* a geometry built from two polygons, one of them with two holes
C28_Witness ==
    /\ Built
    /\ Len(polygons) = 2
    /\ \E k \in 1..2 : Len(polygons[k].interiors) = 2
    /\ Len(The(jgeom).edge2) > 12

\* ---------------------------------------------------------------------------
\* RasterGeom (geom/raster.py, lines 35-85) and BaseGeom.multipolygon
\* (geom/base.py, lines 13-15). The raster is the row of NCells cells; a
\* domain is the set of cells its polygons cover.

\* __init__, lines 57-59. RasterGeom and BaseGeom define neither iter_windows
\* nor get_window_data; windowed tells whether the class of the object adds
\* them (a subclass that takes them from the raster), which RasterGeom itself
\* does not
RasterGeom(raster, zmin, zmax, windowed) ==
    [raster |-> raster, _zmin |-> zmin, _zmax |-> zmax, windowed |-> windowed]

\* Raster.iter_windows(overlap): as Windows, with the overlap of the call
WindowsWith(overlap) ==
    [k \in 1..((NCells + ChunkSize - 1) \div ChunkSize) |->
        {c \in Cells : /\ c >= (k - 1) * ChunkSize - overlap
                       /\ c <= k * ChunkSize - 1 + overlap}]

\* lines 65-73: -1 for a masked cell, 1 for a valid one, then -1 below zmin
\* and above zmax when the argument is given
new_mask(self, c, zmin, zmax) ==
    IF self.raster.mask[c] THEN -1
    ELSE IF zmin # None /\ self.raster.z[c] < The(zmin) THEN -1
    ELSE IF zmax # None /\ self.raster.z[c] > The(zmax) THEN -1
    ELSE 1

\* lines 63-85: the windows with a valid cell are contoured between the
\* levels 0 and 1 and the polygons are merged; line 63 raises when the object
\* has no iter_windows
get_multipolygon(self, zmin, zmax) ==
    IF ~self.windowed THEN [raised |-> "AttributeError", cells |-> {}]
    ELSE [raised |-> "none",
          cells |-> UNION {{c \in WindowsWith(2)[k] : new_mask(self, c, zmin, zmax) = 1} :
                              k \in {j \in DOMAIN WindowsWith(2) :
                                        \E c \in WindowsWith(2)[j] :
                                            new_mask(self, c, zmin, zmax) # -1}}]

\* the multipolygon property, base.py lines 13-15: no argument is passed
multipolygon_property(self) == get_multipolygon(self, None, None)

\* the heights of the cells and the limits a caller gives
Heights == {-2, 0, 15}
Limits == {None, Some(-1), Some(1)}

\* rasters with no masked cell or with the first cell masked
Rasters ==
    [z : [Cells -> Heights],
     mask : {[c \in Cells |-> FALSE], [c \in Cells |-> c = 0]}]

\* a read of the multipolygon property; geom is built from the same value
\* (base.py, lines 21 and 34)
ReadMultipolygon ==
    /\ domain = None
    /\ domain' = Some(multipolygon_property(rgeom))
    /\ UNCHANGED <<rgeom, polygons, jgeom>>
    /\ UNCHANGED notGeom

InitRasterGeom ==
    /\ rgeom \in {RasterGeom(r, zmin, zmax, w) :
                     r \in Rasters, zmin \in Limits, zmax \in Limits, w \in BOOLEAN}
    /\ domain = None
    /\ polygons = <<>>
    /\ jgeom = None
    /\ IdlePSLG
    /\ IdleRing
    /\ IdleHfun
    /\ IdleResample
    /\ IdleMesh
    /\ IdleCall
    /\ IdleMsh
    /\ IdleObj

NextRasterGeom == ReadMultipolygon

SpecRasterGeom == InitRasterGeom /\ [][NextRasterGeom]_vars

\* C24: the domain that the multipolygon property of a RasterGeom built with
\* zmin and/or zmax yields holds no cell whose value is below zmin or above
\* zmax.
C24_LimitsExcludeCells ==
    domain # None =>
        /\ The(domain).raised = "none"
        /\ \A c \in The(domain).cells :
              /\ rgeom._zmin # None => rgeom.raster.z[c] >= The(rgeom._zmin)
              /\ rgeom._zmax # None => rgeom.raster.z[c] <= The(rgeom._zmax)

====
